---- MODULE Spec2Model ----
(***************************************************************************)
(* Model of the agent-starter-pack generator: the layered composition of  *)
(* process_template (src/cli/utils/template.py), the copy primitive       *)
(* copy_files, and the create command with its region post-processing     *)
(* (src/cli/commands/create.py).                                           *)
(*                                                                         *)
(* The filesystem is a function from paths (sequences of segments) to     *)
(* nodes; file contents are strings, so that substring tests and          *)
(* str.replace are computed character by character as Python does.        *)
(***************************************************************************)
EXTENDS Integers, Sequences, FiniteSets, TLC

(***************************************************************************)
(* Strings (Python str operations used by the code)                        *)
(***************************************************************************)

\* str.startswith
StartsWith(s, p) == Len(s) >= Len(p) /\ SubSeq(s, 1, Len(p)) = p

\* str.endswith
EndsWith(s, p) == Len(s) >= Len(p) /\ SubSeq(s, Len(s) - Len(p) + 1, Len(s)) = p

\* `sub in s`
Contains(s, sub) ==
    \E i \in 1..(Len(s) - Len(sub) + 1) : SubSeq(s, i, i + Len(sub) - 1) = sub

\* str.replace(old, new): leftmost, non-overlapping occurrences
RECURSIVE StrReplace(_, _, _)
StrReplace(s, old, new) ==
    LET found == {i \in 1..(Len(s) - Len(old) + 1) : SubSeq(s, i, i + Len(old) - 1) = old}
    IN  IF found = {} THEN s
        ELSE LET i == CHOOSE j \in found : \A k \in found : j <= k
             IN  SubSeq(s, 1, i - 1) \o new
                 \o StrReplace(SubSeq(s, i + Len(old), Len(s)), old, new)

\* reading a file in text mode (Path.read_text, open(..., "r+")): universal newlines
read_text(data) == StrReplace(StrReplace(data, "\r\n", "\n"), "\r", "\n")

(***************************************************************************)
(* Paths (pathlib.Path)                                                    *)
(***************************************************************************)

\* str(path): the segments joined by "/", below the filesystem root
RECURSIVE PathStr(_)
PathStr(p) == IF p = <<>> THEN "" ELSE PathStr(SubSeq(p, 1, Len(p) - 1)) \o "/" \o p[Len(p)]

\* path.name
PathName(p) == p[Len(p)]

\* path.parent
PathParent(p) == SubSeq(p, 1, Len(p) - 1)

\* path / rel
PathJoin(p, rel) == p \o rel

\* index of the last "." of a name, 0 if none
LastDot(name) ==
    LET dots == {i \in 1..Len(name) : SubSeq(name, i, i) = "."}
    IN  IF dots = {} THEN 0 ELSE CHOOSE i \in dots : \A j \in dots : j <= i

\* path.suffix: from the last dot of the name, empty for a leading or trailing dot
PathSuffix(p) ==
    LET name == PathName(p)
        i == LastDot(name)
    IN  IF i > 1 /\ i < Len(name) THEN SubSeq(name, i, Len(name)) ELSE ""

\* q is p or lies below p
IsUnder(q, p) == Len(q) >= Len(p) /\ SubSeq(q, 1, Len(p)) = p

\* the path of q relative to p
RelTo(q, p) == SubSeq(q, Len(p) + 1, Len(q))

(***************************************************************************)
(* Filesystem: a function from the existing paths to their nodes           *)
(***************************************************************************)

DirNode == [kind |-> "dir", data |-> ""]

FileNode(content) == [kind |-> "file", data |-> content]

Exists(f, p) == p \in DOMAIN f

IsDir(f, p) == p \in DOMAIN f /\ f[p].kind = "dir"

IsFile(f, p) == p \in DOMAIN f /\ f[p].kind = "file"

\* the non-empty prefixes of p
Prefixes(p) == {SubSeq(p, 1, i) : i \in 1..Len(p)}

\* path.mkdir(parents=True): p and every missing ancestor become directories
MkdirParents(f, p) ==
    LET new == {q \in Prefixes(p) : q \notin DOMAIN f}
    IN  [q \in DOMAIN f \cup new |-> IF q \in DOMAIN f THEN f[q] ELSE DirNode]

\* open(p, "w").write(content): create or replace the file p
WriteFile(f, p, content) ==
    [q \in DOMAIN f \cup {p} |-> IF q = p THEN FileNode(content) ELSE f[q]]

\* shutil.copy2(s, d): into d when d is a directory, else onto d
Copy2(f, s, d) ==
    LET target == IF IsDir(f, d) THEN Append(d, PathName(s)) ELSE d
    IN  WriteFile(f, target, f[s].data)

\* shutil.rmtree(p)
RmTree(f, p) == [q \in {r \in DOMAIN f : ~IsUnder(r, p)} |-> f[q]]

\* the names of the entries of directory p
Entries(f, p) == {q[Len(q)] : q \in {r \in DOMAIN f : Len(r) = Len(p) + 1 /\ IsUnder(r, p)}}

\* the subtree below p, by relative path
SubTree(f, p) ==
    [r \in {RelTo(q, p) : q \in {x \in DOMAIN f : IsUnder(x, p) /\ x # p}} |-> f[PathJoin(p, r)]]

\* shutil.copytree(s, d, dirs_exist_ok=True)
CopyTree(f, s, d) ==
    LET below == {q \in DOMAIN f : IsUnder(q, s)}
        f1 == MkdirParents(f, d)
        new == {PathJoin(d, RelTo(q, s)) : q \in below}
    IN  [q \in DOMAIN f1 \cup new |->
            IF q \in new THEN f[PathJoin(s, RelTo(q, d))] ELSE f1[q]]

(***************************************************************************)
(* Python values                                                           *)
(***************************************************************************)

\* Python's None, for optional string arguments
None == "<None>"

\* truth value of an optional string: None and "" are falsy
Truthy(x) == x # None /\ x # ""

\* dict.get(key, default) on a mapping modelled as a function
DictGet(d, key, default) == IF key \in DOMAIN d THEN d[key] ELSE default

\* the empty mapping {}
EmptyDict == [k \in {} |-> ""]

\* a YAML scalar string and a YAML list, told apart as isinstance(x, str) does
YamlStr(s) == [str |-> s]

YamlList(l) == [list |-> l]

IsInstanceStr(v) == "str" \in DOMAIN v

\* the elements of a sequence
Range(s) == {s[i] : i \in DOMAIN s}

\* `x in targets` for a YAML list
InTargets(x, v) == x \in Range(v.list)

(***************************************************************************)
(* Directory enumeration: Path.iterdir yields entries in arbitrary order   *)
(***************************************************************************)

RECURSIVE SetToSeq(_)
SetToSeq(S) == IF S = {} THEN <<>> ELSE LET x == CHOOSE y \in S : TRUE IN <<x>> \o SetToSeq(S \ {x})

Reverse(s) == [i \in 1..Len(s) |-> s[Len(s) + 1 - i]]

\* the enumeration orders the model draws from
Orders == {"fwd", "rev"}

IterDir(f, p, order) ==
    IF order = "fwd" THEN SetToSeq(Entries(f, p)) ELSE Reverse(SetToSeq(Entries(f, p)))

(***************************************************************************)
(* copy_files and its skip predicate                                       *)
(***************************************************************************)

OVERWRITE_FOLDERS == <<"app", "frontend", "tests", "notebooks">>

DEPLOYMENT_FOLDERS == <<"cloud_run", "agent_engine">>

DEFAULT_FRONTEND == "streamlit"

\* the agent-specific exclusion applied whatever the agent is
should_exclude_path_any(path, agent_name) ==
    \/ Contains(PathStr(path), "tests/unit/test_utils")
    \/ Contains(PathStr(path), "app/utils")

should_exclude_path(path, agent_name) ==
    /\ agent_name = "multimodal_live_api"
    /\ \/ Contains(PathStr(path), "tests/unit/test_utils")
       \/ Contains(PathStr(path), "app/utils")

should_skip(path, agent_name) ==
    \/ PathSuffix(path) = ".pyc"
    \/ Contains(PathStr(path), "__pycache__")
    \/ PathName(path) = "__pycache__"
    \/ (agent_name # None /\ should_exclude_path(path, agent_name))

RECURSIVE copy_files(_, _, _, _, _, _)
RECURSIVE copy_items(_, _, _, _, _, _, _)
RECURSIVE copy_items_break(_, _, _, _, _, _, _)
RECURSIVE copy_items_always(_, _, _, _, _, _, _)

\* copy_items with `break` in place of `continue`: the loop ends at the first
\* skipped entry
copy_items_break(f, src, dst, items, agent_name, overwrite, order) ==
    IF items = <<>> THEN f
    ELSE LET item == Append(src, Head(items))
             d == Append(dst, Head(items))
         IN  IF should_skip(item, agent_name) THEN f
             ELSE copy_items_break(
                    IF IsDir(f, item)
                    THEN copy_files(f, item, d, agent_name, overwrite, order)
                    ELSE IF overwrite \/ ~Exists(f, d) THEN Copy2(f, item, d) ELSE f,
                    src, dst, Tail(items), agent_name, overwrite, order)

\* copy_items with the overwrite flag ignored: an existing file is always replaced
copy_items_always(f, src, dst, items, agent_name, overwrite, order) ==
    IF items = <<>> THEN f
    ELSE LET item == Append(src, Head(items))
             d == Append(dst, Head(items))
             f1 == IF should_skip(item, agent_name) THEN f
                   ELSE IF IsDir(f, item)
                        THEN copy_files(f, item, d, agent_name, overwrite, order)
                        ELSE Copy2(f, item, d)
         IN  copy_items_always(f1, src, dst, Tail(items), agent_name, overwrite, order)

\* the loop `for item in src.iterdir()` of copy_files over the entries left
copy_items(f, src, dst, items, agent_name, overwrite, order) ==
    IF items = <<>> THEN f
    ELSE LET item == Append(src, Head(items))
             d == Append(dst, Head(items))
             f1 == IF should_skip(item, agent_name) THEN f
                   ELSE IF IsDir(f, item)
                        THEN copy_files(f, item, d, agent_name, overwrite, order)
                        ELSE IF overwrite \/ ~Exists(f, d) THEN Copy2(f, item, d) ELSE f
         IN  copy_items(f1, src, dst, Tail(items), agent_name, overwrite, order)

copy_files(f, src, dst, agent_name, overwrite, order) ==
    IF IsDir(f, src)
    THEN LET f1 == IF ~Exists(f, dst) THEN MkdirParents(f, dst) ELSE f
         IN  copy_items(f1, src, dst, IterDir(f, src, order), agent_name, overwrite, order)
    ELSE IF ~should_skip(src, agent_name) /\ (overwrite \/ ~Exists(f, dst))
         THEN Copy2(f, src, dst)
         ELSE f

(***************************************************************************)
(* Repository layout                                                       *)
(***************************************************************************)

\* pathlib.Path(__file__).parent.parent.parent: the src/ directory of the package
SrcRoot == <<"repo", "src">>

base_template_path == SrcRoot \o <<"base_template">>

deployment_path(deployment_target) == SrcRoot \o <<"deployment_targets", deployment_target>>

data_ingestion_src == SrcRoot \o <<"data_ingestion">>

frontends_path(frontend_type) == SrcRoot \o <<"frontends", frontend_type>>

agents_dir == <<"repo", "agents">>

\* get_template_path: agents/<agent_name>/template
template_path_of(agent_name) == agents_dir \o <<agent_name, "template">>

lock_path(agent_name, deployment_target) ==
    <<"repo", "src", "resources", "locks",
      "uv-" \o agent_name \o "-" \o deployment_target \o ".lock">>

\* the directory tempfile.TemporaryDirectory() creates
TempDir == <<"tmp", "tmpdir">>

ProjectNamePlaceholder == "{{cookiecutter.project_name}}"

cookiecutter_template(temp_path) == temp_path \o <<"template">>

project_template(temp_path) == cookiecutter_template(temp_path) \o <<ProjectNamePlaceholder>>

(***************************************************************************)
(* The layers' copy passes                                                 *)
(***************************************************************************)

copy_data_ingestion_files(f, proj, order) ==
    IF Exists(f, data_ingestion_src)
    THEN copy_files(f, data_ingestion_src, Append(proj, "data_ingestion"), None, TRUE, order)
    ELSE f

\* copy_frontend_files, its one-step fallback to the default frontend unrolled
copy_frontend_files(f, frontend_type, proj, order) ==
    LET ft == IF Truthy(frontend_type) THEN frontend_type ELSE DEFAULT_FRONTEND
    IN  IF Exists(f, frontends_path(ft))
        THEN copy_files(f, frontends_path(ft), proj, None, TRUE, order)
        ELSE IF ft # DEFAULT_FRONTEND /\ Exists(f, frontends_path(DEFAULT_FRONTEND))
             THEN copy_files(f, frontends_path(DEFAULT_FRONTEND), proj, None, TRUE, order)
             ELSE f

\* pass 5 with overwrite off: files of earlier layers are kept
RECURSIVE copy_agent_folders_keep(_, _, _, _, _, _)
copy_agent_folders_keep(f, agent_path, proj, agent_name, order, i) ==
    IF i > Len(OVERWRITE_FOLDERS) THEN f
    ELSE LET agent_folder == Append(agent_path, OVERWRITE_FOLDERS[i])
             project_folder == Append(proj, OVERWRITE_FOLDERS[i])
             f1 == IF Exists(f, agent_folder)
                   THEN copy_files(f, agent_folder, project_folder, agent_name, FALSE, order)
                   ELSE f
         IN  copy_agent_folders_keep(f1, agent_path, proj, agent_name, order, i + 1)

\* the loop over OVERWRITE_FOLDERS of pass 5, from folder index i on
RECURSIVE copy_agent_folders(_, _, _, _, _, _)
copy_agent_folders(f, agent_path, proj, agent_name, order, i) ==
    IF i > Len(OVERWRITE_FOLDERS) THEN f
    ELSE LET agent_folder == Append(agent_path, OVERWRITE_FOLDERS[i])
             project_folder == Append(proj, OVERWRITE_FOLDERS[i])
             f1 == IF Exists(f, agent_folder)
                   THEN copy_files(f, agent_folder, project_folder, agent_name, TRUE, order)
                   ELSE f
         IN  copy_agent_folders(f1, agent_path, proj, agent_name, order, i + 1)

(***************************************************************************)
(* Agent manifests (.templateconfig.yaml) and the generated manifest       *)
(***************************************************************************)

TEMPLATE_CONFIG_FILE == ".templateconfig.yaml"

\* load_template_config: {} when the file is absent, cannot be parsed or is
\* empty, else whatever the file holds, a mapping ("ok") or a list ("list");
\* ms maps the path of each manifest file to what yaml.safe_load makes of it
load_template_config(f, ms, template_dir) ==
    LET config_file == Append(template_dir, TEMPLATE_CONFIG_FILE)
    IN  IF ~Exists(f, config_file) THEN EmptyDict
        ELSE IF ms[config_file].parse \notin {"ok", "list"} THEN EmptyDict
        ELSE IF ms[config_file].parse = "list" /\ ms[config_file].doc.list = <<>>
             THEN EmptyDict
             ELSE ms[config_file].doc

\* config.get("settings", {})
Settings(config) == DictGet(config, "settings", EmptyDict)

otel_deps == <<[key |-> "langgraph", val |-> "Instruments.LANGCHAIN"],
               [key |-> "crewai", val |-> "Instruments.CREW"]>>

\* next(key for key in otel_deps if key in dep)
FirstOtel(dep) ==
    LET hits == {i \in DOMAIN otel_deps : Contains(dep, otel_deps[i].key)}
    IN  otel_deps[CHOOSE i \in hits : \A j \in hits : i <= j].val

get_otel_instrumentations(dependencies) ==
    LET matching == SelectSeq(dependencies,
                              LAMBDA dep : \E i \in DOMAIN otel_deps : Contains(dep, otel_deps[i].key))
    IN  <<[i \in DOMAIN matching |-> FirstOtel(matching[i])]>>

BoolStr(b) == IF b THEN "true" ELSE "false"

\* json.dump of the generated manifest (the scalar keys)
JsonDump(c) ==
    "{project_name: " \o c.project_name \o ", agent_name: " \o c.agent_name
        \o ", deployment_target: " \o c.deployment_target
        \o ", frontend_type: " \o c.frontend_type
        \o ", data_ingestion: " \o BoolStr(c.data_ingestion) \o "}"

\* the dictionary cookiecutter_config
CookiecutterConfig(agent_name, template_config, deployment_target, should_include) ==
    LET extra_deps == DictGet(Settings(template_config), "extra_dependencies", <<>>)
    IN  [project_name |-> "my-project",
         agent_name |-> agent_name,
         agent_description |-> DictGet(template_config, "description", ""),
         deployment_target |-> IF Truthy(deployment_target) THEN deployment_target ELSE "",
         frontend_type |-> DictGet(Settings(template_config), "frontend_type", DEFAULT_FRONTEND),
         extra_dependencies |-> <<extra_deps>>,
         otel_instrumentations |-> get_otel_instrumentations(extra_deps),
         data_ingestion |-> should_include]

(***************************************************************************)
(* The renderer (the cookiecutter library): every file below the project   *)
(* template is written below <cwd>/<project_name>, with the project-name   *)
(* placeholder substituted unless _copy_without_render matches the file    *)
(***************************************************************************)

CopyWithoutRenderDirs == {"frontend", "tests", "notebooks", ".git", "__pycache__",
                          ".pytest_cache", ".venv"}

CopyWithoutRender(rel) ==
    \/ PathSuffix(rel) \in {".ipynb", ".json"}
    \/ EndsWith(PathName(rel), "templates.py")
    \/ (Len(rel) > 1 /\ rel[1] \in CopyWithoutRenderDirs)

RenderNode(rel, node, project_name) ==
    IF node.kind = "dir" \/ CopyWithoutRender(rel) THEN node
    ELSE FileNode(StrReplace(node.data, ProjectNamePlaceholder, project_name))

cookiecutter(f, template, out, project_name) ==
    LET src == Append(template, ProjectNamePlaceholder)
        tree == SubTree(f, src)
        dst == Append(out, project_name)
        f1 == MkdirParents(f, dst)
        new == {PathJoin(dst, r) : r \in DOMAIN tree}
    IN  [q \in DOMAIN f1 \cup new |->
            IF q \in new THEN RenderNode(RelTo(q, dst), tree[RelTo(q, dst)], project_name)
            ELSE f1[q]]

(***************************************************************************)
(* State                                                                   *)
(***************************************************************************)

VARIABLES
    fs,         \* the filesystem
    manifests,  \* manifest file path -> what yaml.safe_load makes of the file
    cwd,        \* the process working directory (os.getcwd)
    pc,         \* position inside process_template
    args,       \* the arguments of the process_template call
    loc,        \* the local variables of process_template
    exc,        \* the exception process_template is raising, None if none
    run,        \* the number of the process_template call
    prev,       \* the project tree the previous call produced
    cpc,        \* position inside create, "none" when process_template is called directly
    cr,         \* the arguments and local variables of create
    out,        \* what the command has printed on the console, as message tags
    exit_code,  \* the exit status of the command line process: <<>> while it runs, then <<status>>
    spc,        \* position inside setup_cicd, "none" when it is not the command run
    sc,         \* the arguments and local variables of setup_cicd
    gh,         \* the call of create_github_connection: position and loop counters
    fn,         \* the call of a utility function applied on its own, and its result
    st,         \* st.session_state of the Streamlit frontend, and the buttons on screen
    wt          \* the watch utility: its two threads, the handler's fields and the clock

vars == <<fs, manifests, cwd, pc, args, loc, exc, run, prev, cpc, cr, out, exit_code, spc, sc, gh, fn, st, wt>>

\* an absent pathlib.Path argument
NoPath == <<None>>

NoLocals ==
    [destination_dir |-> NoPath, original_dir |-> NoPath, temp_path |-> NoPath,
     should_include |-> FALSE, final_destination |-> NoPath, replaced |-> FALSE,
     cookiecutter_config |-> EmptyDict]

\* pathlib.Path(template_dir).parent
agent_path_of(a) == PathParent(a.template_dir)

(***************************************************************************)
(* process_template, one action per step                                   *)
(***************************************************************************)

\* lines 285-315: destination directory, temporary directory, chdir, template shape
PT_Enter ==
    /\ pc = "call"
    /\ LET destination_dir == IF args.output_dir # NoPath THEN args.output_dir ELSE cwd
           f1 == IF ~Exists(fs, destination_dir) THEN MkdirParents(fs, destination_dir) ELSE fs
           f2 == MkdirParents(f1, TempDir)
       IN  /\ fs' = MkdirParents(f2, project_template(TempDir))
           /\ loc' = [NoLocals EXCEPT !.destination_dir = destination_dir,
                                      !.temp_path = TempDir,
                                      !.original_dir = cwd]
           /\ cwd' = TempDir
    /\ pc' = "pass1"
    /\ UNCHANGED <<manifests, args, exc, run, prev, cpc, cr, out, exit_code, spc, sc, gh, fn, st, wt>>

\* lines 317-322: 1. base template
PT_Pass1Base ==
    /\ pc = "pass1"
    /\ \E order \in Orders :
         fs' = copy_files(fs, base_template_path, project_template(loc.temp_path),
                          args.agent_name, TRUE, order)
    /\ pc' = "pass2"
    /\ UNCHANGED <<manifests, cwd, args, loc, exc, run, prev, cpc, cr, out, exit_code, spc, sc, gh, fn, st, wt>>

\* lines 324-340: 2. deployment target overlay
PT_Pass2Deployment ==
    /\ pc = "pass2"
    /\ IF /\ Truthy(args.deployment_target)
          /\ args.deployment_target \in Range(DEPLOYMENT_FOLDERS)
          /\ Exists(fs, deployment_path(args.deployment_target))
       THEN \E order \in Orders :
              fs' = copy_files(fs, deployment_path(args.deployment_target),
                               project_template(loc.temp_path), args.agent_name, TRUE, order)
       ELSE fs' = fs
    /\ pc' = "pass3"
    /\ UNCHANGED <<manifests, cwd, args, loc, exc, run, prev, cpc, cr, out, exit_code, spc, sc, gh, fn, st, wt>>

\* the data-ingestion decision taken from the argument alone
ShouldInclude_FlagOnly(f, ms, a) == a.include_data_ingestion

\* include_data_ingestion or requires_data_ingestion
ShouldInclude(f, ms, a) ==
    \/ a.include_data_ingestion
    \/ DictGet(Settings(load_template_config(f, ms, a.template_dir)),
               "requires_data_ingestion", FALSE)

\* lines 342-353: 3. data ingestion module
PT_Pass3DataIngestion ==
    /\ pc = "pass3"
    /\ IF ShouldInclude(fs, manifests, args)
       THEN \E order \in Orders :
              fs' = copy_data_ingestion_files(fs, project_template(loc.temp_path), order)
       ELSE fs' = fs
    /\ loc' = [loc EXCEPT !.should_include = ShouldInclude(fs, manifests, args)]
    /\ pc' = "pass4"
    /\ UNCHANGED <<manifests, cwd, args, exc, run, prev, cpc, cr, out, exit_code, spc, sc, gh, fn, st, wt>>

\* lines 355-360: 4. frontend module
PT_Pass4Frontend ==
    /\ pc = "pass4"
    /\ LET frontend_type == DictGet(Settings(load_template_config(fs, manifests, args.template_dir)),
                                    "frontend_type", DEFAULT_FRONTEND)
       IN  \E order \in Orders :
             fs' = copy_frontend_files(fs, frontend_type, project_template(loc.temp_path), order)
    /\ pc' = "pass5"
    /\ UNCHANGED <<manifests, cwd, args, loc, exc, run, prev, cpc, cr, out, exit_code, spc, sc, gh, fn, st, wt>>

\* lines 362-380: 5. agent override folders, then the agent README
PT_Pass5Agent ==
    /\ pc = "pass5"
    /\ \E order \in Orders :
         LET agent_path == agent_path_of(args)
             proj == project_template(loc.temp_path)
             f1 == IF Exists(fs, agent_path)
                   THEN copy_agent_folders(fs, agent_path, proj, args.agent_name, order, 1)
                   ELSE fs
             agent_readme == Append(agent_path, "README.md")
         IN  fs' = IF Exists(f1, agent_readme)
                   THEN Copy2(f1, agent_readme, Append(proj, "agent_README.md"))
                   ELSE f1
    /\ pc' = "validate"
    /\ UNCHANGED <<manifests, cwd, args, loc, exc, run, prev, cpc, cr, out, exit_code, spc, sc, gh, fn, st, wt>>

\* available_targets, a single string normalised to a one-element list
AvailableTargets(config) ==
    LET t == DictGet(Settings(config), "deployment_targets", YamlList(<<>>))
    IN  IF IsInstanceStr(t) THEN YamlList(<<t.str>>) ELSE t

\* the validation step without the deployment-target test
PT_Validate_ConfigOnly ==
    /\ pc = "validate"
    /\ IF DOMAIN load_template_config(fs, manifests, args.template_dir) = {}
       THEN exc' = "ValueError" /\ pc' = "exit"
       ELSE exc' = exc /\ pc' = "manifest"
    /\ UNCHANGED <<fs, manifests, cwd, args, loc, run, prev, cpc, cr, out, exit_code, spc, sc, gh, fn, st, wt>>

\* lines 382-396: what the validation raises, None when it raises nothing
validation_error(f, ms, template_dir, deployment_target) ==
    LET config == load_template_config(f, ms, template_dir)
    IN  IF DOMAIN config = {} THEN "ValueError"
        ELSE IF /\ Truthy(deployment_target)
                /\ ~InTargets(deployment_target, AvailableTargets(config))
             THEN "ValueError"
             ELSE None

\* lines 382-396: the manifest must load and list the requested target
PT_Validate ==
    /\ pc = "validate"
    /\ LET e == validation_error(fs, manifests, args.template_dir, args.deployment_target)
       IN  IF e # None
           THEN exc' = e /\ pc' = "exit"
           ELSE exc' = exc /\ pc' = "manifest"
    /\ UNCHANGED <<fs, manifests, cwd, args, loc, run, prev, cpc, cr, out, exit_code, spc, sc, gh, fn, st, wt>>

\* lines 398-462: data ingestion module copied again, cookiecutter.json written
PT_Manifest ==
    /\ pc = "manifest"
    /\ LET template_config == load_template_config(fs, manifests, args.template_dir)
           should_include == ShouldInclude(fs, manifests, args)
           config == CookiecutterConfig(args.agent_name, template_config,
                                        args.deployment_target, should_include)
       IN  /\ \E order \in Orders :
                LET f1 == IF should_include
                          THEN copy_data_ingestion_files(fs, project_template(loc.temp_path), order)
                          ELSE fs
                IN  fs' = WriteFile(f1, Append(cookiecutter_template(loc.temp_path),
                                               "cookiecutter.json"), JsonDump(config))
           /\ loc' = [loc EXCEPT !.should_include = should_include,
                                 !.cookiecutter_config = config]
    /\ pc' = "render"
    /\ UNCHANGED <<manifests, cwd, args, exc, run, prev, cpc, cr, out, exit_code, spc, sc, gh, fn, st, wt>>

\* what a call of the renderer can do: render, render nothing, or raise
RenderOutcomes == {"rendered", "no_output", "raise"}

\* lines 464-473: the renderer runs in the current working directory
PT_Render ==
    /\ pc = "render"
    /\ \E outcome \in RenderOutcomes :
         CASE outcome = "rendered" ->
                /\ fs' = cookiecutter(fs, cookiecutter_template(loc.temp_path), cwd,
                                      args.project_name)
                /\ exc' = exc /\ pc' = "move"
           [] outcome = "no_output" ->
                /\ fs' = fs /\ exc' = exc /\ pc' = "move"
           [] outcome = "raise" ->
                /\ fs' = fs /\ exc' = "CookiecutterException" /\ pc' = "exit"
    /\ UNCHANGED <<manifests, cwd, args, loc, run, prev, cpc, cr, out, exit_code, spc, sc, gh, fn, st, wt>>

\* the move that copies over an existing destination without removing it
PT_Move_Merge ==
    /\ pc = "move"
    /\ LET output_dir == Append(loc.temp_path, args.project_name)
           final_destination == Append(loc.destination_dir, args.project_name)
       IN  IF Exists(fs, output_dir)
           THEN /\ fs' = CopyTree(fs, output_dir, final_destination)
                /\ loc' = [loc EXCEPT !.final_destination = final_destination,
                                      !.replaced = Exists(fs, final_destination)]
                /\ exc' = exc /\ pc' = "lock"
           ELSE /\ fs' = fs /\ loc' = loc
                /\ exc' = "FileNotFoundError" /\ pc' = "exit"
    /\ UNCHANGED <<manifests, cwd, args, run, prev, cpc, cr, out, exit_code, spc, sc, gh, fn, st, wt>>

\* lines 475-485 and 521-525: move the rendered project to its destination;
\* loc.replaced records that the branch removing an existing destination ran
PT_Move ==
    /\ pc = "move"
    /\ LET output_dir == Append(loc.temp_path, args.project_name)
           final_destination == Append(loc.destination_dir, args.project_name)
       IN  IF Exists(fs, output_dir)
           THEN /\ LET f1 == IF Exists(fs, final_destination)
                             THEN RmTree(fs, final_destination) ELSE fs
                   IN  fs' = CopyTree(f1, output_dir, final_destination)
                /\ loc' = [loc EXCEPT !.final_destination = final_destination,
                                      !.replaced = Exists(fs, final_destination)]
                /\ exc' = exc /\ pc' = "lock"
           ELSE /\ fs' = fs /\ loc' = loc
                /\ exc' = "FileNotFoundError" /\ pc' = "exit"
    /\ UNCHANGED <<manifests, cwd, args, run, prev, cpc, cr, out, exit_code, spc, sc, gh, fn, st, wt>>

\* the lock step that copies the lock file and leaves its content alone
PT_Lock_CopyOnly ==
    /\ pc = "lock"
    /\ IF Truthy(args.deployment_target)
       THEN LET lp == lock_path(args.agent_name, args.deployment_target)
            IN  IF ~Exists(fs, lp)
                THEN fs' = fs /\ exc' = "FileNotFoundError"
                ELSE fs' = Copy2(fs, lp, Append(loc.final_destination, "uv.lock")) /\ exc' = exc
       ELSE fs' = fs /\ exc' = exc
    /\ pc' = "exit"
    /\ UNCHANGED <<manifests, cwd, args, loc, run, prev, cpc, cr, out, exit_code, spc, sc, gh, fn, st, wt>>

\* lines 487-520: the lock file of (agent, deployment target) becomes uv.lock;
\* it is read back in text mode and rewritten with the project name
PT_Lock ==
    /\ pc = "lock"
    /\ IF Truthy(args.deployment_target)
       THEN LET lp == lock_path(args.agent_name, args.deployment_target)
                lock_file_path == Append(loc.final_destination, "uv.lock")
            IN  IF ~Exists(fs, lp)
                THEN fs' = fs /\ exc' = "FileNotFoundError"
                ELSE /\ LET f1 == Copy2(fs, lp, lock_file_path)
                            content == read_text(f1[lock_file_path].data)
                        IN  fs' = WriteFile(f1, lock_file_path,
                                            StrReplace(content, ProjectNamePlaceholder,
                                                       args.project_name))
                     /\ exc' = exc
       ELSE fs' = fs /\ exc' = exc
    /\ pc' = "exit"
    /\ UNCHANGED <<manifests, cwd, args, loc, run, prev, cpc, cr, out, exit_code, spc, sc, gh, fn, st, wt>>

\* the exit step with the working directory restored on success only
PT_Exit_RestoreOnSuccess ==
    /\ pc = "exit"
    /\ cwd' = IF exc = None THEN loc.original_dir ELSE cwd
    /\ fs' = RmTree(fs, loc.temp_path)
    /\ pc' = IF exc = None THEN "returned" ELSE "raised"
    /\ UNCHANGED <<manifests, args, loc, exc, run, prev, cpc, cr, out, exit_code, spc, sc, gh, fn, st, wt>>

\* lines 527-533 and the end of the `with` block of line 302: the exception is
\* re-raised, the working directory restored, the temporary directory removed
PT_Exit ==
    /\ pc = "exit"
    /\ cwd' = loc.original_dir
    /\ fs' = RmTree(fs, loc.temp_path)
    /\ pc' = IF exc = None THEN "returned" ELSE "raised"
    /\ UNCHANGED <<manifests, args, loc, exc, run, prev, cpc, cr, out, exit_code, spc, sc, gh, fn, st, wt>>

\* the number of process_template calls a behaviour makes
MaxRuns == 2

\* a further call with the same agent, target and data-ingestion choice, into a
\* fresh output directory and under another project name
PT_CallAgain ==
    /\ cpc = "none"
    /\ pc = "returned"
    /\ run < MaxRuns
    /\ prev' = [done |-> TRUE, project_name |-> args.project_name,
                tree |-> SubTree(fs, loc.final_destination)]
    /\ args' = [args EXCEPT !.output_dir = <<"runs", ToString(run + 1)>>,
                            !.project_name = "proj-" \o ToString(run + 1)]
    /\ run' = run + 1
    /\ loc' = NoLocals
    /\ pc' = "call"
    /\ UNCHANGED <<fs, manifests, cwd, exc, cpc, cr, out, exit_code, spc, sc, gh, fn, st, wt>>

(***************************************************************************)
(* Helpers of the create command                                           *)
(***************************************************************************)

UpperChars == "ABCDEFGHIJKLMNOPQRSTUVWXYZ"

LowerChars == "abcdefghijklmnopqrstuvwxyz"

\* Strings of the model are ASCII. Two characters outside ASCII that a
\* project name may hold are written with ASCII marks: "^" is U+0130 (capital
\* I with dot above), whose lower case is "i" followed by U+0307 (combining
\* dot above), written "~"; "@" is U+1D400 (mathematical bold capital A),
\* upper case with no lower-case form.
DottedCapitalI == "^"

CombiningDotAbove == "~"

BoldCapitalA == "@"

\* char.isupper()
CharIsUpper(c) ==
    \/ \E i \in 1..Len(UpperChars) : SubSeq(UpperChars, i, i) = c
    \/ c \in {DottedCapitalI, BoldCapitalA}

AnyUpper(s) == \E i \in 1..Len(s) : CharIsUpper(SubSeq(s, i, i))

CharLower(c) ==
    IF c = DottedCapitalI THEN "i" \o CombiningDotAbove
    ELSE IF c = BoldCapitalA THEN c
    ELSE IF CharIsUpper(c)
    THEN LET i == CHOOSE k \in 1..Len(UpperChars) : SubSeq(UpperChars, k, k) = c
         IN  SubSeq(LowerChars, i, i)
    ELSE c

\* str.lower()
RECURSIVE StrLower(_)
StrLower(s) == IF s = "" THEN "" ELSE CharLower(SubSeq(s, 1, 1)) \o StrLower(SubSeq(s, 2, Len(s)))

\* the characters of agent names, in code point order
CodeOrder == "-.0123456789" \o UpperChars \o "_" \o LowerChars

CharRank(c) == CHOOSE i \in 1..Len(CodeOrder) : SubSeq(CodeOrder, i, i) = c

\* a < b on str
RECURSIVE StrLess(_, _)
StrLess(a, b) ==
    IF b = "" THEN FALSE
    ELSE IF a = "" THEN TRUE
    ELSE IF SubSeq(a, 1, 1) = SubSeq(b, 1, 1)
         THEN StrLess(SubSeq(a, 2, Len(a)), SubSeq(b, 2, Len(b)))
         ELSE CharRank(SubSeq(a, 1, 1)) < CharRank(SubSeq(b, 1, 1))

Digits == "0123456789"

IsDigits(s) ==
    /\ s # ""
    /\ \A i \in 1..Len(s) : \E d \in 1..Len(Digits) : SubSeq(Digits, d, d) = SubSeq(s, i, i)

\* int(s) for a string of ASCII digits
RECURSIVE ParseInt(_)
ParseInt(s) ==
    IF s = "" THEN 0
    ELSE LET last == SubSeq(s, Len(s), Len(s))
             d == CHOOSE k \in 1..Len(Digits) : SubSeq(Digits, k, k) = last
         IN  10 * ParseInt(SubSeq(s, 1, Len(s) - 1)) + (d - 1)

\* normalize_project_name: the name, and the notes printed on the way
normalize_project_name(project_name) ==
    IF AnyUpper(project_name) \/ Contains(project_name, "_")
    THEN LET lowered == IF AnyUpper(project_name) THEN StrLower(project_name) ELSE project_name
             hyphened == IF Contains(lowered, "_") THEN StrReplace(lowered, "_", "-") ELSE lowered
         IN  [name |-> hyphened,
              msgs |-> <<"note_normalized">>
                       \o (IF AnyUpper(project_name) THEN <<"info_lowercase">> ELSE <<>>)
                       \o (IF Contains(lowered, "_") THEN <<"info_hyphens">> ELSE <<>>)]
    ELSE [name |-> project_name, msgs |-> <<>>]

PRIORITY_AGENTS == <<"langgraph_base_react">>

\* list.sort(key=name), by insertion
RECURSIVE SortByName(_)
SortByName(l) ==
    IF l = <<>> THEN <<>>
    ELSE LET rest == SortByName(Tail(l))
             x == Head(l)
             k == Cardinality({i \in DOMAIN rest : StrLess(rest[i].name, x.name)})
         IN  SubSeq(rest, 1, k) \o <<x>> \o SubSeq(rest, k + 1, Len(rest))

\* the loop of get_available_agents over the entries left; acc holds
\* priority_agents, agents_list and the directories a warning was logged for.
\* A manifest that does not parse raises inside the try; so does one that is
\* not a mapping (None for an empty file, a list), at config.get
RECURSIVE scan_agents(_, _, _, _, _)
scan_agents(f, ms, deployment_target, items, acc) ==
    IF items = <<>> THEN acc
    ELSE LET agent_dir == Append(agents_dir, Head(items))
             template_config_path == agent_dir \o <<"template", TEMPLATE_CONFIG_FILE>>
             candidate == /\ IsDir(f, agent_dir)
                          /\ ~StartsWith(Head(items), "__")
                          /\ Exists(f, template_config_path)
             loaded == candidate /\ ms[template_config_path].parse = "ok"
             config == ms[template_config_path].doc
             targets == LET t == DictGet(Settings(config), "deployment_targets", YamlList(<<>>))
                        IN  IF IsInstanceStr(t) THEN YamlList(<<t.str>>) ELSE t
             agent_info == [name |-> Head(items),
                            description |-> DictGet(config, "description",
                                                    "No description available")]
             acc1 == IF ~candidate THEN acc
                     ELSE IF ~loaded THEN [acc EXCEPT !.warnings = Append(@, Head(items))]
                     ELSE IF Truthy(deployment_target) /\ ~InTargets(deployment_target, targets)
                          THEN acc
                          ELSE IF Head(items) \in Range(PRIORITY_AGENTS)
                               THEN [acc EXCEPT !.priority_agents = Append(@, agent_info)]
                               ELSE [acc EXCEPT !.agents_list = Append(@, agent_info)]
         IN  scan_agents(f, ms, deployment_target, Tail(items), acc1)

\* the loop of get_available_agents with the try taken away: the first
\* manifest that cannot be used ends the scan
RECURSIVE scan_agents_raise(_, _, _, _, _)
scan_agents_raise(f, ms, deployment_target, items, acc) ==
    IF items = <<>> THEN acc
    ELSE LET one == scan_agents(f, ms, deployment_target, <<Head(items)>>, acc)
         IN  IF one.warnings # acc.warnings
             THEN [priority_agents |-> <<>>, agents_list |-> <<>>, warnings |-> one.warnings]
             ELSE scan_agents_raise(f, ms, deployment_target, Tail(items), one)

\* the lists after the loop that stops at the first unusable manifest
scanned_agents_raise(f, ms, deployment_target, order) ==
    scan_agents_raise(f, ms, deployment_target, IterDir(f, agents_dir, order),
                      [priority_agents |-> <<>>, agents_list |-> <<>>, warnings |-> <<>>])

\* the lists of get_available_agents after its loop
scanned_agents(f, ms, deployment_target, order) ==
    scan_agents(f, ms, deployment_target, IterDir(f, agents_dir, order),
                [priority_agents |-> <<>>, agents_list |-> <<>>, warnings |-> <<>>])

\* get_available_agents without the sort of the non-priority agents
get_available_agents_unsorted(f, ms, deployment_target, order) ==
    LET acc == scanned_agents(f, ms, deployment_target, order)
    IN  acc.priority_agents \o acc.agents_list

\* get_available_agents: the numbered agents, from 1, as a sequence
get_available_agents(f, ms, deployment_target, order) ==
    LET acc == scanned_agents(f, ms, deployment_target, order)
    IN  acc.priority_agents \o SortByName(acc.agents_list)

\* get_deployment_targets that hands back lists only
get_deployment_targets_lists(f, ms, agent_name) ==
    LET config == load_template_config(f, ms, template_path_of(agent_name))
        targets == DictGet(Settings(config), "deployment_targets", YamlList(<<>>))
    IN  IF DOMAIN config = {} THEN <<>>
        ELSE IF IsInstanceStr(targets) THEN <<>> ELSE targets.list

\* get_deployment_targets: always a list
get_deployment_targets(f, ms, agent_name) ==
    LET config == load_template_config(f, ms, template_path_of(agent_name))
        targets == DictGet(Settings(config), "deployment_targets", YamlList(<<>>))
    IN  IF DOMAIN config = {} THEN <<>>
        ELSE IF IsInstanceStr(targets) THEN <<targets.str>> ELSE targets.list

\* a result, or the exception raised instead
Ok(v) == [exc |-> None, val |-> v]

Raise(e) == [exc |-> e, val |-> None]

\* prompt_deployment_target: "" without targets, else targets[choice - 1] with
\* Python's indexing (negative indices count from the end)
prompt_deployment_target(f, ms, agent_name, choice) ==
    LET targets == get_deployment_targets(f, ms, agent_name)
        i == choice - 1
    IN  IF targets = <<>> THEN Ok("")
        ELSE IF i >= 0 /\ i < Len(targets) THEN Ok(targets[i + 1])
        ELSE IF i < 0 /\ -i <= Len(targets) THEN Ok(targets[Len(targets) + i + 1])
        ELSE Raise("IndexError")

\* display_agent_selection
display_agent_selection(f, ms, deployment_target, order, choice) ==
    LET agents == get_available_agents(f, ms, deployment_target, order)
    IN  IF agents = <<>> THEN Raise("ClickException")
        ELSE IF choice \notin DOMAIN agents THEN Raise("ValueError")
        ELSE Ok(agents[choice].name)

\* str.strip() for ASCII white space
RECURSIVE StrStrip(_)
StrStrip(s) ==
    IF s = "" THEN s
    ELSE IF SubSeq(s, 1, 1) \in {" ", "\t", "\n", "\r"} THEN StrStrip(SubSeq(s, 2, Len(s)))
    ELSE IF SubSeq(s, Len(s), Len(s)) \in {" ", "\t", "\n", "\r"}
         THEN StrStrip(SubSeq(s, 1, Len(s) - 1))
    ELSE s

\* the digits of an integer literal: ASCII digits, single underscores allowed
\* between two digits
IsIntBody(b) ==
    /\ b # ""
    /\ \A i \in 1..Len(b) : IsDigits(SubSeq(b, i, i)) \/ SubSeq(b, i, i) = "_"
    /\ SubSeq(b, 1, 1) # "_"
    /\ SubSeq(b, Len(b), Len(b)) # "_"
    /\ ~Contains(b, "__")

\* int(s) of Python for an ASCII string: white space around the literal is
\* dropped, one sign is allowed, underscores group digits; anything else is
\* a ValueError
py_int(s) ==
    LET t == StrStrip(s)
        signed == t # "" /\ SubSeq(t, 1, 1) \in {"+", "-"}
        b == IF signed THEN SubSeq(t, 2, Len(t)) ELSE t
        n == ParseInt(StrReplace(b, "_", ""))
    IN  IF ~IsIntBody(b) THEN Raise("ValueError")
        ELSE Ok(IF signed /\ SubSeq(t, 1, 1) = "-" THEN 0 - n ELSE n)

\* an exception with its message
RaiseMsg(e, msg) == [exc |-> e, val |-> msg]

\* agent selection that accepts names only
select_agent_by_name(f, ms, agent, deployment_target, order, choice) ==
    IF Truthy(agent)
    THEN LET agents == get_available_agents(f, ms, None, order)
         IN  IF \E i \in DOMAIN agents : agents[i].name = agent THEN Ok(agent)
             ELSE RaiseMsg("ValueError", "Invalid agent name or number: " \o agent)
    ELSE display_agent_selection(f, ms, deployment_target, order, choice)

\* lines 168-190 of create: the agent given by name or number, else the prompt
select_agent(f, ms, agent, deployment_target, order, choice) ==
    IF Truthy(agent)
    THEN LET agents == get_available_agents(f, ms, None, order)
             agent_num == py_int(agent)
         IN  IF \E i \in DOMAIN agents : agents[i].name = agent THEN Ok(agent)
             ELSE IF agent_num.exc = None /\ agent_num.val \in DOMAIN agents
                  THEN Ok(agents[agent_num.val].name)
                  ELSE RaiseMsg("ValueError", "Invalid agent name or number: " \o agent)
    ELSE display_agent_selection(f, ms, deployment_target, order, choice)

DATASTORE_TYPES == <<"vertex_ai_search", "vertex_ai_vector_search">>

(***************************************************************************)
(* replace_region_in_files                                                 *)
(***************************************************************************)

allowed_extensions == {".md", ".py", ".tfvars", ".yaml", ".tf", ".yml", "Makefile", "makefile"}

skip_dirs == {".git", "__pycache__", "venv", ".venv", "node_modules"}

\* the data store region of lines 589-595, with `eu` as the European prefix
data_store_region_eu(new_region) ==
    IF StartsWith(new_region, "us") THEN "us"
    ELSE IF StartsWith(new_region, "eu") THEN "eu"
    ELSE "global"

\* lines 589-595
data_store_region(new_region) ==
    IF StartsWith(new_region, "us") THEN "us"
    ELSE IF StartsWith(new_region, "europe") THEN "eu"
    ELSE "global"

\* lines 612-649: the content of one file after the replacements
replace_region_in_content(content, new_region) ==
    LET dsr == data_store_region(new_region)
        c1 == IF Contains(content, "us-central1")
              THEN StrReplace(content, "us-central1", new_region) ELSE content
    IN  IF Contains(c1, "data_store_region = \"us\"")
        THEN StrReplace(c1, "data_store_region = \"us\"", "data_store_region = \"" \o dsr \o "\"")
        ELSE IF Contains(c1, "data_store_region=\"us\"")
        THEN StrReplace(c1, "data_store_region=\"us\"", "data_store_region=\"" \o dsr \o "\"")
        ELSE IF Contains(c1, "data-store-region=\"us\"")
        THEN StrReplace(c1, "data-store-region=\"us\"", "data-store-region=\"" \o dsr \o "\"")
        ELSE IF Contains(c1, "_DATA_STORE_REGION: us")
        THEN StrReplace(c1, "_DATA_STORE_REGION: us", "_DATA_STORE_REGION: " \o dsr)
        ELSE c1

\* `modified` of lines 611-649
region_modified(content) ==
    \/ Contains(content, "us-central1")
    \/ Contains(content, "data_store_region = \"us\"")
    \/ Contains(content, "data_store_region=\"us\"")
    \/ Contains(content, "data-store-region=\"us\"")
    \/ Contains(content, "_DATA_STORE_REGION: us")

\* lines 597-607: the files of the walk that are looked at
region_candidate(f, file_path) ==
    /\ ~IsDir(f, file_path)
    /\ ~\E skip_dir \in skip_dirs : skip_dir \in Range(file_path)
    /\ \/ PathSuffix(file_path) \in allowed_extensions
       \/ PathName(file_path) \in allowed_extensions

\* A byte sequence that is no valid text is written with the ASCII mark "#"
\* in a file's data: read_text() raises UnicodeDecodeError on such a file
InvalidByte == "#"

Decodable(data) == ~Contains(data, InvalidByte)

\* lines 597-656: the walk; a file that does not decode is passed over
replace_region_in_files(f, project_path, new_region) ==
    [q \in DOMAIN f |->
        IF /\ IsUnder(q, project_path) /\ q # project_path
           /\ region_candidate(f, q)
           /\ Decodable(f[q].data)
           /\ region_modified(read_text(f[q].data))
        THEN FileNode(replace_region_in_content(read_text(f[q].data), new_region))
        ELSE f[q]]

(***************************************************************************)
(* create, one action per step (logging under --debug is left out; the     *)
(* datastore argument create passes on has no counterpart in               *)
(* process_template and is only recorded)                                  *)
(***************************************************************************)

\* create is not running
NoCreate ==
    [project_name |-> None, agent |-> None, deployment_target |-> None,
     include_data_ingestion |-> FALSE, datastore |-> None, output_dir |-> NoPath,
     auto_approve |-> FALSE, region |-> None, region_from_cli |-> FALSE,
     skip_checks |-> FALSE, destination_dir |-> NoPath, project_path |-> NoPath,
     final_agent |-> None, final_deployment |-> None,
     gcp_checks |-> 0, gcp_exc |-> None, template_calls |-> 0, exc |-> None,
     exc_msg |-> None]

\* no process_template call is under way
NoArgs ==
    [agent_name |-> None, template_dir |-> NoPath, project_name |-> None,
     deployment_target |-> None, include_data_ingestion |-> FALSE, output_dir |-> NoPath]

\* lines 133-153: banner, length check, normalisation, destination directory
C_Start ==
    /\ cpc = "start"
    /\ IF Len(cr.project_name) > 26
       THEN /\ out' = out \o <<"banner", "error_too_long">>
            /\ cr' = cr
            /\ cpc' = "returned"
       ELSE LET n == normalize_project_name(cr.project_name)
                destination_dir == IF cr.output_dir # NoPath THEN cr.output_dir ELSE cwd
            IN  /\ out' = out \o <<"banner">> \o n.msgs
                /\ cr' = [cr EXCEPT !.project_name = n.name,
                                    !.destination_dir = destination_dir,
                                    !.project_path = Append(destination_dir, n.name)]
                /\ cpc' = "exists"
    /\ UNCHANGED <<fs, manifests, cwd, pc, args, loc, exc, run, prev, exit_code, spc, sc, gh, fn, st, wt>>

\* the existence check that lets an existing project directory through
C_CheckExists_Proceed ==
    /\ cpc = "exists"
    /\ cpc' = "agent"
    /\ UNCHANGED <<fs, manifests, cwd, pc, args, loc, exc, run, prev, cr, out, exit_code, spc, sc, gh, fn, st, wt>>

\* lines 155-166: an existing project directory ends the command
C_CheckExists ==
    /\ cpc = "exists"
    /\ IF Exists(fs, cr.project_path)
       THEN out' = Append(out, "error_already_exists") /\ cpc' = "returned"
       ELSE out' = out /\ cpc' = "agent"
    /\ UNCHANGED <<fs, manifests, cwd, pc, args, loc, exc, run, prev, cr, exit_code, spc, sc, gh, fn, st, wt>>

\* the numbers a user may type at a numbered prompt
PromptChoices == {1, 2}

\* lines 168-190: agent selection
C_SelectAgent ==
    /\ cpc = "agent"
    /\ \E order \in Orders, choice \in PromptChoices :
         LET r == select_agent(fs, manifests, cr.agent, cr.deployment_target, order, choice)
         IN  IF r.exc # None
             THEN cr' = [cr EXCEPT !.exc = r.exc, !.exc_msg = r.val] /\ cpc' = "raised"
             ELSE cr' = [cr EXCEPT !.final_agent = r.val] /\ cpc' = "ingestion"
    /\ UNCHANGED <<fs, manifests, cwd, pc, args, loc, exc, run, prev, out, exit_code, spc, sc, gh, fn, st, wt>>

\* lines 194-224: data ingestion and datastore selection; the datastore prompt
\* answers with one of the datastore types
C_DataIngestion ==
    /\ cpc = "ingestion"
    /\ \E prompted \in Range(DATASTORE_TYPES) :
         IF cr.include_data_ingestion \/ Truthy(cr.datastore)
         THEN cr' = [cr EXCEPT !.include_data_ingestion = TRUE,
                               !.datastore = IF Truthy(cr.datastore) THEN cr.datastore
                                             ELSE prompted]
         ELSE LET config == load_template_config(fs, manifests, template_path_of(cr.final_agent))
              IN  IF DictGet(Settings(config), "requires_data_ingestion", FALSE)
                  THEN cr' = [cr EXCEPT !.include_data_ingestion = TRUE,
                                        !.datastore = prompted]
                  ELSE cr' = cr
    /\ cpc' = "deployment"
    /\ UNCHANGED <<fs, manifests, cwd, pc, args, loc, exc, run, prev, out, exit_code, spc, sc, gh, fn, st, wt>>

\* lines 226-233: deployment target selection
C_Deployment ==
    /\ cpc = "deployment"
    /\ \E choice \in PromptChoices :
         LET r == IF Truthy(cr.deployment_target) THEN Ok(cr.deployment_target)
                  ELSE prompt_deployment_target(fs, manifests, cr.final_agent, choice)
         IN  IF r.exc # None
             THEN cr' = [cr EXCEPT !.exc = r.exc] /\ cpc' = "raised"
             ELSE cr' = [cr EXCEPT !.final_deployment = r.val] /\ cpc' = "region"
    /\ UNCHANGED <<fs, manifests, cwd, pc, args, loc, exc, run, prev, out, exit_code, spc, sc, gh, fn, st, wt>>

\* what a user may type at the region prompt: nothing, or a region
RegionAnswers == {"", "europe-west4"}

\* lines 235-242 and 336-345: region confirmation unless given on the command line
C_Region ==
    /\ cpc = "region"
    /\ IF ~cr.auto_approve /\ ~cr.region_from_cli
       THEN \E new_region \in RegionAnswers :
              cr' = [cr EXCEPT !.region = IF new_region # "" THEN new_region ELSE cr.region]
       ELSE cr' = cr
    /\ cpc' = "gcp"
    /\ UNCHANGED <<fs, manifests, cwd, pc, args, loc, exc, run, prev, out, exit_code, spc, sc, gh, fn, st, wt>>

\* the answers at the credential confirmation that matter: go on, or skip the checks
CredentialAnswers == {"continue", "skip"}

\* setup_gcp_environment without --skip-checks, lines 438-456, for the outcomes
\* of its parts: the number of verifications invoked (verify_credentials,
\* verify_vertex_connection), the exception raised, the messages printed
setup_gcp_environment(auto_approve, verify, answer, project, vertex) ==
    IF verify # "ok" THEN [checks |-> 1, exc |-> "Exception", msgs |-> <<>>]
    ELSE IF ~auto_approve /\ answer = "skip"
    THEN [checks |-> 1, exc |-> None, msgs |-> <<"skipping_vertex_test">>]
    ELSE IF project # "ok"
    THEN [checks |-> 1, exc |-> "CalledProcessError", msgs |-> <<"error_setting_project">>]
    ELSE [checks |-> 2, exc |-> None,
          msgs |-> IF vertex = "ok" THEN <<"vertex_verified">> ELSE <<"vertex_failed">>]

\* the GCP step with its `except Exception` taken away: a failure of the
\* environment setup ends the command
C_GcpSetup_Propagate ==
    /\ cpc = "gcp"
    /\ IF ~cr.skip_checks
       THEN \E verify \in {"ok", "raise"}, answer \in CredentialAnswers,
               project \in {"ok", "CalledProcessError"}, vertex \in {"ok", "fail"} :
              LET r == setup_gcp_environment(cr.auto_approve, verify, answer, project, vertex)
              IN  /\ cr' = [cr EXCEPT !.gcp_checks = @ + r.checks, !.gcp_exc = r.exc,
                                      !.exc = r.exc]
                  /\ out' = out \o r.msgs
                  /\ cpc' = IF r.exc # None THEN "raised" ELSE "template"
       ELSE cr' = cr /\ out' = out /\ cpc' = "template"
    /\ UNCHANGED <<fs, manifests, cwd, pc, args, loc, exc, run, prev, exit_code, spc, sc, gh, fn, st, wt>>

\* lines 247-270: the GCP environment setup, whose failure is only a warning
C_GcpSetup ==
    /\ cpc = "gcp"
    /\ IF ~cr.skip_checks
       THEN \E verify \in {"ok", "raise"}, answer \in CredentialAnswers,
               project \in {"ok", "CalledProcessError"}, vertex \in {"ok", "fail"} :
              LET r == setup_gcp_environment(cr.auto_approve, verify, answer, project, vertex)
              IN  /\ cr' = [cr EXCEPT !.gcp_checks = @ + r.checks, !.gcp_exc = r.exc]
                  /\ out' = out \o r.msgs
                               \o (IF r.exc # None THEN <<"warning_gcp_setup_failed">>
                                   ELSE <<>>)
       ELSE cr' = cr /\ out' = out
    /\ cpc' = "template"
    /\ UNCHANGED <<fs, manifests, cwd, pc, args, loc, exc, run, prev, exit_code, spc, sc, gh, fn, st, wt>>

\* lines 272-293: template path, output directory, the call of process_template
C_CallTemplate ==
    /\ cpc = "template"
    /\ IF ~Exists(fs, template_path_of(cr.final_agent))
       THEN /\ cr' = [cr EXCEPT !.exc = "ValueError"]
            /\ cpc' = "raised"
            /\ UNCHANGED <<fs, pc, args, st, wt>>
       ELSE /\ fs' = IF ~Exists(fs, cr.destination_dir)
                     THEN MkdirParents(fs, cr.destination_dir) ELSE fs
            /\ args' = [agent_name |-> cr.final_agent,
                        template_dir |-> template_path_of(cr.final_agent),
                        project_name |-> cr.project_name,
                        deployment_target |-> cr.final_deployment,
                        include_data_ingestion |-> cr.include_data_ingestion,
                        output_dir |-> cr.destination_dir]
            /\ pc' = "call"
            /\ cr' = [cr EXCEPT !.template_calls = @ + 1]
            /\ cpc' = "in_template"
    /\ UNCHANGED <<manifests, cwd, loc, exc, run, prev, out, exit_code, spc, sc, gh, fn, st, wt>>

\* lines 327-333: an exception of process_template leaves create unchanged
C_TemplateRaised ==
    /\ cpc = "in_template"
    /\ pc = "raised"
    /\ cr' = [cr EXCEPT !.exc = exc]
    /\ cpc' = "raised"
    /\ UNCHANGED <<fs, manifests, cwd, pc, args, loc, exc, run, prev, out, exit_code, spc, sc, gh, fn, st, wt>>

\* the region step without its guard: the replacement runs for every region
C_ReplaceRegion_Always ==
    /\ cpc = "in_template"
    /\ pc = "returned"
    /\ fs' = replace_region_in_files(fs, cr.project_path, cr.region)
    /\ out' = out \o (IF cr.include_data_ingestion THEN <<"data_ingestion_setup">> ELSE <<>>)
                  \o <<"done">>
    /\ cpc' = "done"
    /\ UNCHANGED <<manifests, cwd, pc, args, loc, exc, run, prev, cr, exit_code, spc, sc, gh, fn, st, wt>>

\* lines 295-326: region replacement for a region other than the default, then
\* the closing messages
C_ReplaceRegion ==
    /\ cpc = "in_template"
    /\ pc = "returned"
    /\ fs' = IF cr.region # "us-central1"
             THEN replace_region_in_files(fs, cr.project_path, cr.region)
             ELSE fs
    /\ out' = out \o (IF cr.include_data_ingestion THEN <<"data_ingestion_setup">> ELSE <<>>)
                  \o <<"done">>
    /\ cpc' = "done"
    /\ UNCHANGED <<manifests, cwd, pc, args, loc, exc, run, prev, cr, exit_code, spc, sc, gh, fn, st, wt>>

(***************************************************************************)
(* The command line process: how a command's end becomes an exit status    *)
(***************************************************************************)

\* handle_cli_error around create: a return is exit status 0 (click's
\* standalone mode), KeyboardInterrupt is 130 after a notice, any other
\* exception is 1 after an "Error: ..." line
handle_cli_error ==
    /\ cpc \in {"done", "returned", "raised"}
    /\ exit_code = <<>>
    /\ IF cpc # "raised" THEN exit_code' = <<0>> /\ out' = out
       ELSE IF cr.exc = "KeyboardInterrupt"
            THEN exit_code' = <<130>> /\ out' = Append(out, "cancelled_by_user")
            ELSE exit_code' = <<1>> /\ out' = Append(out, "error_message")
    /\ UNCHANGED <<fs, manifests, cwd, pc, args, loc, exc, run, prev, cpc, cr, spc, sc, gh, fn, st, wt>>

\* the positions of create at which Ctrl+C can arrive in the model: every
\* step of create itself (the steps of process_template are not interrupted)
CreateInterruptible ==
    {"start", "exists", "agent", "ingestion", "deployment", "region", "gcp", "template"}

\* Ctrl+C while create runs: KeyboardInterrupt is raised at the current
\* statement and no handler inside create catches it (`except Exception` at
\* line 327 does not)
C_Interrupt ==
    /\ cpc \in CreateInterruptible
    /\ cr' = [cr EXCEPT !.exc = "KeyboardInterrupt"]
    /\ cpc' = "raised"
    /\ UNCHANGED <<fs, manifests, cwd, pc, args, loc, exc, run, prev, out, exit_code, spc, sc, gh, fn, st, wt>>

(***************************************************************************)
(* create_github_connection (src/cli/utils/cicd.py)                        *)
(***************************************************************************)

\* line 208
max_retries == 30

\* no create_github_connection call is under way
NoGh ==
    [pos |-> "idle", attempt |-> 0, polls |-> 0, sleeps |-> 0, pending |-> 0,
     existing |-> FALSE, secret_id |-> None, app_installation_id |-> None, exc |-> None,
     status |-> None]

\* what an external command can do: end with status 0, or with a non-zero
\* status that run_command(check=True) turns into CalledProcessError
CmdOutcomes == {"ok", "CalledProcessError"}

\* what `gcloud builds connections describe` can report: the stage, and for
\* COMPLETE whether the secret version and the installation id are present
DescribeOutcomes ==
    {"COMPLETE", "COMPLETE_incomplete", "PENDING_USER_OAUTH", "PENDING_INSTALL_APP",
     "OTHER", "CalledProcessError"}

\* the identifiers a COMPLETE connection carries
ConnectionSecretId == "github-connection-oauth"

ConnectionAppInstallationId == "4242"

\* lines 109-148: the repository is looked up and created when missing
GH_Repository ==
    /\ gh.pos = "repo"
    /\ \E outcome \in CmdOutcomes :
         gh' = IF outcome = "ok" THEN [gh EXCEPT !.pos = "create"]
               ELSE [gh EXCEPT !.pos = "raised", !.exc = "CalledProcessError"]
    /\ sc' = [sc EXCEPT !.log = Append(@, "gh_repo_view_create")]
    /\ UNCHANGED <<fs, manifests, cwd, pc, args, loc, exc, run, prev, cpc, cr, out, exit_code, spc, fn, st, wt>>

\* lines 150-199: the connection is created; an existing one is reused, any
\* other failure is raised
GH_Create ==
    /\ gh.pos = "create"
    /\ \E outcome \in {"created", "ALREADY_EXISTS", "failed"} :
         gh' = IF outcome = "failed"
               THEN [gh EXCEPT !.pos = "raised", !.exc = "CalledProcessError"]
               ELSE [gh EXCEPT !.pos = "poll", !.existing = (outcome = "ALREADY_EXISTS")]
    /\ sc' = [sc EXCEPT !.log = Append(@, "gcloud_connections_create")]
    /\ UNCHANGED <<fs, manifests, cwd, pc, args, loc, exc, run, prev, cpc, cr, out, exit_code, spc, fn, st, wt>>

\* the loop body with the cap of the iteration count taken away: a pending
\* stage always leads to a sleep and another poll
poll_step_uncapped(g, status) ==
    LET polled == [g EXCEPT !.polls = @ + 1, !.status = status]
    IN  IF status = "CalledProcessError"
        THEN [polled EXCEPT !.pos = "raised", !.exc = "CalledProcessError"]
        ELSE IF status = "COMPLETE"
        THEN [polled EXCEPT !.pos = "returned", !.secret_id = ConnectionSecretId,
                            !.app_installation_id = ConnectionAppInstallationId]
        ELSE IF status = "COMPLETE_incomplete"
        THEN [polled EXCEPT !.pos = "raised", !.exc = "ValueError"]
        ELSE IF status \in {"PENDING_USER_OAUTH", "PENDING_INSTALL_APP"}
        THEN [polled EXCEPT !.pending = @ + 1, !.sleeps = @ + 1, !.attempt = @ + 1]
        ELSE [polled EXCEPT !.pos = "raised", !.exc = "Exception"]

\* the loop body that returns on COMPLETE whatever the connection details hold
poll_step_lenient(g, status) ==
    LET polled == [g EXCEPT !.polls = @ + 1, !.status = status]
    IN  IF status = "CalledProcessError"
        THEN [polled EXCEPT !.pos = "raised", !.exc = "CalledProcessError"]
        ELSE IF status = "COMPLETE"
        THEN [polled EXCEPT !.pos = "returned", !.secret_id = ConnectionSecretId,
                            !.app_installation_id = ConnectionAppInstallationId]
        ELSE IF status = "COMPLETE_incomplete"
        THEN [polled EXCEPT !.pos = "returned"]
        ELSE IF status \in {"PENDING_USER_OAUTH", "PENDING_INSTALL_APP"}
        THEN LET waited == [polled EXCEPT !.pending = @ + 1,
                                          !.sleeps = IF g.attempt < max_retries - 1
                                                     THEN @ + 1 ELSE @]
             IN  IF g.attempt + 1 < max_retries
                 THEN [waited EXCEPT !.attempt = @ + 1]
                 ELSE [waited EXCEPT !.attempt = @ + 1, !.pos = "raised",
                                     !.exc = "TimeoutError"]
        ELSE [polled EXCEPT !.pos = "raised", !.exc = "Exception"]

\* the body of `for attempt in range(max_retries)` for one describe outcome,
\* and what follows the loop when this was its last iteration
poll_step(g, status) ==
    LET polled == [g EXCEPT !.polls = @ + 1, !.status = status]
    IN  IF status = "CalledProcessError"
        THEN [polled EXCEPT !.pos = "raised", !.exc = "CalledProcessError"]
        ELSE IF status = "COMPLETE"
        THEN [polled EXCEPT !.pos = "returned", !.secret_id = ConnectionSecretId,
                            !.app_installation_id = ConnectionAppInstallationId]
        ELSE IF status = "COMPLETE_incomplete"
        THEN [polled EXCEPT !.pos = "raised", !.exc = "ValueError"]
        ELSE IF status \in {"PENDING_USER_OAUTH", "PENDING_INSTALL_APP"}
        THEN LET waited == [polled EXCEPT !.pending = @ + 1,
                                          !.sleeps = IF g.attempt < max_retries - 1
                                                     THEN @ + 1 ELSE @]
             IN  IF g.attempt + 1 < max_retries
                 THEN [waited EXCEPT !.attempt = @ + 1]
                 ELSE [waited EXCEPT !.attempt = @ + 1, !.pos = "raised",
                                     !.exc = "TimeoutError"]
        ELSE [polled EXCEPT !.pos = "raised", !.exc = "Exception"]

\* lines 208-297: one iteration of the authorization wait loop
GH_Poll ==
    /\ gh.pos = "poll"
    /\ gh.attempt < max_retries
    /\ \E status \in DescribeOutcomes : gh' = poll_step(gh, status)
    /\ UNCHANGED <<fs, manifests, cwd, pc, args, loc, exc, run, prev, cpc, cr, out, exit_code, spc, sc, fn, st, wt>>

(***************************************************************************)
(* setup_cicd (src/cli/commands/setup_cicd.py)                             *)
(***************************************************************************)

\* the characters \s matches among those the files hold
IsSpace(c) == c \in {" ", "\t", "\n", "\r"}

\* the first index at or after i that does not hold whitespace
RECURSIVE SkipSpace(_, _)
SkipSpace(s, i) == IF i <= Len(s) /\ IsSpace(SubSeq(s, i, i)) THEN SkipSpace(s, i + 1) ELSE i

\* the index at which a match of  key\s*=\s*"[^"]*"  starting at i ends, 0 if none
MatchAssign(s, key, i) ==
    IF i + Len(key) - 1 > Len(s) \/ SubSeq(s, i, i + Len(key) - 1) # key THEN 0
    ELSE LET a == SkipSpace(s, i + Len(key))
         IN  IF a > Len(s) \/ SubSeq(s, a, a) # "=" THEN 0
             ELSE LET b == SkipSpace(s, a + 1)
                      closes == {j \in (b + 1)..Len(s) : SubSeq(s, j, j) = "\""}
                  IN  IF b > Len(s) \/ SubSeq(s, b, b) # "\"" \/ closes = {} THEN 0
                      ELSE CHOOSE j \in closes : \A k \in closes : j <= k

\* re.sub(r'key\s*=\s*"[^"]*"', 'key = "value"', s) from index i on
RECURSIVE SubAssignFrom(_, _, _, _)
SubAssignFrom(s, key, value, i) ==
    LET starts == {j \in i..Len(s) : MatchAssign(s, key, j) # 0}
    IN  IF starts = {} THEN SubSeq(s, i, Len(s))
        ELSE LET b == CHOOSE j \in starts : \A k \in starts : j <= k
             IN  SubSeq(s, i, b - 1) \o key \o " = \"" \o value \o "\""
                 \o SubAssignFrom(s, key, value, MatchAssign(s, key, b) + 1)

SubAssign(s, key, value) == SubAssignFrom(s, key, value, 1)

\* str(value) inside an f-string: None prints as "None"
FStr(v) == IF v = None THEN "None" ELSE v

\* str.splitlines() for "\n" line ends
RECURSIVE SplitLines(_)
SplitLines(s) ==
    IF s = "" THEN <<>>
    ELSE LET ends == {i \in 1..Len(s) : SubSeq(s, i, i) = "\n"}
         IN  IF ends = {} THEN <<s>>
             ELSE LET e == CHOOSE i \in ends : \A k \in ends : i <= k
                  IN  <<SubSeq(s, 1, e - 1)>> \o SplitLines(SubSeq(s, e + 1, Len(s)))

\* setup_cicd is not running
NoCicd ==
    [dev_project |-> None, staging_project |-> None, prod_project |-> None,
     cicd_project |-> None, region |-> None, repository_name |-> None,
     repository_owner |-> None, host_connection_name |-> None, github_pat |-> None,
     github_app_installation_id |-> None, git_provider |-> None,
     local_state |-> FALSE, auto_approve |-> FALSE,
     oauth_token_secret_id |-> None, detected_mode |-> None,
     log |-> <<>>, exc |-> None]

\* Path("deployment/terraform"), relative to the working directory
tf_dir == cwd \o <<"deployment", "terraform">>

\* Path(__file__).parent.parent.parent / "resources" / "setup_cicd"
cicd_utils_path == SrcRoot \o <<"resources", "setup_cicd">>

\* what `gh api user --jq .login` prints
GithubLogin == "octo"

\* the repository a user names at the prompts
PromptedRepository == "genai-app-1"

\* a step of setup_cicd ends with exception e
S_Raise(e) ==
    /\ sc' = [sc EXCEPT !.exc = e]
    /\ spc' = "raised"

\* the introduction and the confirmation without the project root check
S_Start_NoCheck ==
    /\ spc = "start"
    /\ IF ~sc.auto_approve
       THEN \E answer \in BOOLEAN :
              /\ sc' = [sc EXCEPT !.log = Append(@, "prompt_confirm")]
              /\ out' = out \o <<"intro">> \o (IF answer THEN <<>> ELSE <<"cancelled">>)
              /\ spc' = IF answer THEN "provider" ELSE "returned"
       ELSE sc' = sc /\ out' = Append(out, "intro") /\ spc' = "provider"
    /\ UNCHANGED <<fs, manifests, cwd, pc, args, loc, exc, run, prev, cpc, cr, exit_code, gh, fn, st, wt>>

\* lines 404-444: the project root check, the introduction, the confirmation
S_Start ==
    /\ spc = "start"
    /\ IF ~Exists(fs, Append(cwd, "pyproject.toml"))
       THEN S_Raise("UsageError") /\ out' = out
       ELSE IF ~sc.auto_approve
            THEN \E answer \in BOOLEAN :
                   /\ sc' = [sc EXCEPT !.log = Append(@, "prompt_confirm")]
                   /\ out' = out \o <<"intro">> \o (IF answer THEN <<>> ELSE <<"cancelled">>)
                   /\ spc' = IF answer THEN "provider" ELSE "returned"
            ELSE sc' = sc /\ out' = Append(out, "intro") /\ spc' = "provider"
    /\ UNCHANGED <<fs, manifests, cwd, pc, args, loc, exc, run, prev, cpc, cr, exit_code, gh, fn, st, wt>>

\* lines 445-480: the introduction again, the git provider, the GitHub CLI login
S_Provider ==
    /\ spc = "provider"
    /\ out' = Append(out, "intro")
    /\ \E authenticated \in BOOLEAN, login \in CmdOutcomes :
         LET prompted == ~Truthy(sc.git_provider)
             git_provider == IF prompted THEN "github" ELSE sc.git_provider
             check == git_provider = "github"
                      /\ ~(Truthy(sc.github_pat) /\ Truthy(sc.github_app_installation_id))
             log1 == sc.log \o (IF prompted THEN <<"prompt_git_provider">> ELSE <<>>)
                            \o (IF check THEN <<"gh_auth_status">> ELSE <<>>)
                            \o (IF check /\ ~authenticated
                                THEN <<"prompt_auth_method", "gh_auth_login">> ELSE <<>>)
         IN  IF check /\ ~authenticated /\ login # "ok"
             THEN /\ sc' = [sc EXCEPT !.git_provider = git_provider, !.log = log1,
                                      !.exc = "Abort"]
                  /\ spc' = "raised"
             ELSE /\ sc' = [sc EXCEPT !.git_provider = git_provider, !.log = log1]
                  /\ spc' = "repository"
    /\ UNCHANGED <<fs, manifests, cwd, pc, args, loc, exc, run, prev, cpc, cr, exit_code, gh, fn, st, wt>>

\* lines 482-488 and prompt_for_repository_details: the repository's name and
\* owner, asked for unless both were given; the default connection name
S_Repository ==
    /\ spc = "repository"
    /\ IF ~(Truthy(sc.repository_name) /\ Truthy(sc.repository_owner))
       THEN \E user \in CmdOutcomes :
              IF user # "ok"
              THEN /\ sc' = [sc EXCEPT !.log = Append(@, "gh_api_user"),
                                       !.exc = "CalledProcessError"]
                   /\ spc' = "raised"
              ELSE /\ sc' = [sc EXCEPT
                               !.log = @ \o <<"gh_api_user", "prompt_repository">>,
                               !.repository_name = IF Truthy(@) THEN @ ELSE PromptedRepository,
                               !.repository_owner = IF Truthy(@) THEN @ ELSE GithubLogin,
                               !.host_connection_name = IF Truthy(@) THEN @
                                                        ELSE "github-connection"]
                   /\ spc' = "apis"
       ELSE /\ sc' = [sc EXCEPT !.host_connection_name = IF Truthy(@) THEN @
                                                         ELSE "github-connection"]
            /\ spc' = "apis"
    /\ UNCHANGED <<fs, manifests, cwd, pc, args, loc, exc, run, prev, cpc, cr, out, exit_code, gh, fn, st, wt>>

\* lines 489-491 and ensure_apis_enabled: the required APIs and the build
\* service account's role
S_EnableApis ==
    /\ spc = "apis"
    /\ \E outcome \in CmdOutcomes :
         IF outcome = "ok"
         THEN sc' = [sc EXCEPT !.log = Append(@, "gcloud_services_enable")] /\ spc' = "connection"
         ELSE /\ sc' = [sc EXCEPT !.log = Append(@, "gcloud_services_enable"),
                                  !.exc = "CalledProcessError"]
              /\ spc' = "raised"
    /\ UNCHANGED <<fs, manifests, cwd, pc, args, loc, exc, run, prev, cpc, cr, out, exit_code, gh, fn, st, wt>>

\* the mode decided by the installation id alone
detected_mode_by_id(pat, installation_id) ==
    IF Truthy(installation_id) THEN "programmatic" ELSE "interactive"

\* "programmatic" if github_pat and github_app_installation_id else "interactive"
detected_mode(pat, installation_id) ==
    IF Truthy(pat) /\ Truthy(installation_id) THEN "programmatic" ELSE "interactive"

\* lines 493-532: interactive mode creates the repository and calls
\* create_github_connection; programmatic mode stores the token as a secret
S_Connection ==
    /\ spc = "connection"
    /\ LET mode == detected_mode(sc.github_pat, sc.github_app_installation_id)
       IN  IF sc.git_provider = "github" /\ mode = "interactive"
           THEN \E repo \in CmdOutcomes :
                  IF repo = "ok"
                  THEN /\ sc' = [sc EXCEPT !.detected_mode = mode,
                                           !.log = Append(@, "gh_repo_view_create")]
                       /\ gh' = [NoGh EXCEPT !.pos = "repo"]
                       /\ spc' = "in_connection"
                  ELSE /\ sc' = [sc EXCEPT !.detected_mode = mode,
                                           !.log = Append(@, "gh_repo_view_create"),
                                           !.exc = "CalledProcessError"]
                       /\ gh' = gh
                       /\ spc' = "raised"
           ELSE IF sc.git_provider = "github" /\ mode = "programmatic"
           THEN \E secret \in CmdOutcomes :
                  /\ sc' = [sc EXCEPT !.detected_mode = mode,
                                      !.oauth_token_secret_id = "github-pat",
                                      !.log = Append(@, "gcloud_secrets_add"),
                                      !.exc = IF secret = "ok" THEN @ ELSE "CalledProcessError"]
                  /\ gh' = gh
                  /\ spc' = IF secret = "ok" THEN "copy" ELSE "raised"
           ELSE /\ sc' = [sc EXCEPT !.detected_mode = mode, !.exc = "ValueError"]
                /\ gh' = gh
                /\ spc' = "raised"
    /\ UNCHANGED <<fs, manifests, cwd, pc, args, loc, exc, run, prev, cpc, cr, out, exit_code, fn, st, wt>>

\* lines 504-510: create_github_connection has returned a pair or raised, and
\* its frame is gone
S_ConnectionReturned ==
    /\ spc = "in_connection"
    /\ gh.pos \in {"returned", "raised"}
    /\ IF gh.pos = "returned"
       THEN /\ sc' = [sc EXCEPT !.oauth_token_secret_id = gh.secret_id,
                                !.github_app_installation_id = gh.app_installation_id]
            /\ spc' = "copy"
       ELSE S_Raise(gh.exc)
    /\ gh' = NoGh
    /\ UNCHANGED <<fs, manifests, cwd, pc, args, loc, exc, run, prev, cpc, cr, out, exit_code, fn, st, wt>>

\* cicd_utils_path.glob("*.tf"): the names of the directory that end in ".tf"
tf_files(f) == {n \in Entries(f, cicd_utils_path) : EndsWith(n, ".tf")}

\* the loop `for tf_file in ...glob("*.tf"): shutil.copy2(tf_file, tf_dir)`
RECURSIVE copy_tf_files(_, _, _)
copy_tf_files(f, names, dst) ==
    IF names = <<>> THEN f
    ELSE copy_tf_files(Copy2(f, Append(cicd_utils_path, Head(names)), dst), Tail(names), dst)

\* lines 534-560: the project configuration and the CI/CD terraform files
S_CopyTerraform ==
    /\ spc = "copy"
    /\ \E order \in Orders :
         LET names == IF order = "fwd" THEN SetToSeq(tf_files(fs))
                      ELSE Reverse(SetToSeq(tf_files(fs)))
         IN  IF names # <<>> /\ ~IsDir(fs, tf_dir) /\ ~IsDir(fs, PathParent(tf_dir))
             THEN S_Raise("FileNotFoundError") /\ fs' = fs /\ out' = out
             ELSE /\ fs' = copy_tf_files(fs, names, tf_dir)
                  /\ sc' = sc
                  /\ out' = Append(out, "copied_terraform_files")
                  /\ spc' = "backend"
    /\ UNCHANGED <<manifests, cwd, pc, args, loc, exc, run, prev, cpc, cr, exit_code, gh, fn, st, wt>>

\* the backend.tf setup_terraform_backend writes
backend_content(bucket_name, state_prefix) ==
    "terraform {\n  backend \"gcs\" {\n    bucket = \"" \o bucket_name
    \o "\"\n    prefix = \"" \o state_prefix \o "\"\n  }\n}\n"

\* setup_terraform_backend, lines 273-292: backend.tf in the root and the dev
\* terraform directories that exist
write_backends(f, dir, project_id) ==
    LET bucket_name == project_id \o "-terraform-state"
        f1 == IF Exists(f, dir)
              THEN WriteFile(f, Append(dir, "backend.tf"), backend_content(bucket_name, "prod"))
              ELSE f
    IN  IF Exists(f1, Append(dir, "dev"))
        THEN WriteFile(f1, dir \o <<"dev", "backend.tf">>, backend_content(bucket_name, "dev"))
        ELSE f1

\* lines 562-568: the remote state bucket and the backend files, unless the
\* state is kept locally
S_Backend ==
    /\ spc = "backend"
    /\ IF ~sc.local_state
       THEN \E bucket \in {"exists", "created", "CalledProcessError"} :
              LET log1 == sc.log \o <<"gsutil_ls">>
                                 \o (IF bucket = "exists" THEN <<>> ELSE <<"gsutil_mb">>)
              IN  IF bucket = "CalledProcessError"
                  THEN /\ sc' = [sc EXCEPT !.log = log1, !.exc = "CalledProcessError"]
                       /\ spc' = "raised"
                       /\ fs' = fs
                  ELSE /\ sc' = [sc EXCEPT !.log = log1]
                       /\ spc' = "vars"
                       /\ fs' = write_backends(fs, tf_dir, sc.cicd_project)
       ELSE sc' = sc /\ spc' = "vars" /\ fs' = fs
    /\ UNCHANGED <<manifests, cwd, pc, args, loc, exc, run, prev, cpc, cr, out, exit_code, gh, fn, st, wt>>

\* E2EDeployment.update_terraform_vars with is_dev=False: the content written back
update_terraform_vars(content, config) ==
    LET c1 == SubAssign(content, "staging_project_id", FStr(config.staging_project))
        c2 == SubAssign(c1, "prod_project_id", FStr(config.prod_project))
        c3 == SubAssign(c2, "cicd_runner_project_id", FStr(config.cicd_project))
        c4 == SubAssign(c3, "host_connection_name", FStr(config.host_connection_name))
    IN  SubAssign(c4, "repository_name", FStr(config.repository_name))

\* the names and values of new_vars, in insertion order
new_vars(config) ==
    <<[key |-> "repository_owner",
       val |-> IF Truthy(config.repository_owner) THEN config.repository_owner ELSE GithubLogin],
      [key |-> "github_app_installation_id", val |-> config.github_app_installation_id],
      [key |-> "github_pat_secret_id", val |-> config.oauth_token_secret_id],
      [key |-> "connection_exists",
       val |-> IF config.detected_mode = "interactive" THEN "true" ELSE "false"]>>

\* the kept lines of the existing content, each with its line end
RECURSIVE kept_lines(_, _)
kept_lines(lines, vs) ==
    IF lines = <<>> THEN ""
    ELSE (IF \E i \in DOMAIN vs : StartsWith(Head(lines), vs[i].key \o " = ") THEN ""
          ELSE Head(lines) \o "\n")
         \o kept_lines(Tail(lines), vs)

\* the lines written for new_vars: "true" and "false" bare, other values quoted
RECURSIVE var_lines(_)
var_lines(vs) ==
    IF vs = <<>> THEN ""
    ELSE LET v == Head(vs)
         IN  (IF v.val \in {"true", "false"} THEN v.key \o " = " \o v.val \o "\n"
              ELSE v.key \o " = \"" \o FStr(v.val) \o "\"\n")
             \o var_lines(Tail(vs))

\* lines 576-616: env.tfvars rewritten from its existing content and new_vars
rewrite_env_vars(existing_content, config) ==
    kept_lines(SplitLines(existing_content), new_vars(config)) \o var_lines(new_vars(config))

BuildTriggerDependsOld ==
    "depends_on = [resource.google_project_service.cicd_services, resource.google_project_service.shared_services]"

BuildTriggerDependsNew ==
    "depends_on = [resource.google_project_service.cicd_services, resource.google_project_service.shared_services, google_cloudbuildv2_repository.repo]"

BuildTriggerRepositoryOld ==
    "repository = \"projects/${var.cicd_runner_project_id}/locations/${var.region}/connections/${var.host_connection_name}/repositories/${var.repository_name}\""

BuildTriggerRepositoryNew == "repository = google_cloudbuildv2_repository.repo.id"

\* update_build_triggers: build_triggers.tf, when it exists, gets the
\* repository dependency and the repository reference
update_build_triggers(f, dir) ==
    LET build_triggers_path == Append(dir, "build_triggers.tf")
    IN  IF Exists(f, build_triggers_path)
        THEN WriteFile(f, build_triggers_path,
                       StrReplace(StrReplace(read_text(f[build_triggers_path].data),
                                             BuildTriggerDependsOld, BuildTriggerDependsNew),
                                  BuildTriggerRepositoryOld, BuildTriggerRepositoryNew))
        ELSE f

\* lines 618-635: the dev env.tfvars, when it exists and a dev project is given
update_dev_vars(f, dir, dev_project) ==
    LET dev_tf_vars_path == dir \o <<"dev", "vars", "env.tfvars">>
    IN  IF Exists(f, dev_tf_vars_path) /\ Truthy(dev_project)
        THEN WriteFile(f, dev_tf_vars_path,
                       SubAssign(read_text(f[dev_tf_vars_path].data), "dev_project_id",
                                 dev_project))
        ELSE f

\* lines 570-638: the terraform variables of the staging/production setup,
\* of the dev setup, and the build triggers
S_UpdateVars ==
    /\ spc = "vars"
    /\ LET env_vars_path == tf_dir \o <<"vars", "env.tfvars">>
       IN  IF ~IsFile(fs, env_vars_path)
           THEN S_Raise("FileNotFoundError") /\ fs' = fs /\ out' = out
           ELSE LET f1 == WriteFile(fs, env_vars_path,
                                    update_terraform_vars(read_text(fs[env_vars_path].data), sc))
                    existing_content == read_text(f1[env_vars_path].data)
                    f2 == WriteFile(f1, env_vars_path, rewrite_env_vars(existing_content, sc))
                    f3 == update_dev_vars(f2, tf_dir, sc.dev_project)
                IN  IF ~Truthy(sc.repository_owner)
                    THEN \E user \in CmdOutcomes :
                           IF user = "ok"
                           THEN /\ fs' = update_build_triggers(f3, tf_dir)
                                /\ sc' = [sc EXCEPT !.log = @ \o <<"gh_api_user", "write_env_tfvars">>]
                                /\ out' = Append(out, "updated_env_tfvars")
                                /\ spc' = "apply"
                           ELSE /\ fs' = f1
                                /\ sc' = [sc EXCEPT !.log = Append(@, "gh_api_user"),
                                                    !.exc = "CalledProcessError"]
                                /\ out' = out
                                /\ spc' = "raised"
                    ELSE /\ fs' = update_build_triggers(f3, tf_dir)
                         /\ sc' = [sc EXCEPT !.log = Append(@, "write_env_tfvars")]
                         /\ out' = Append(out, "updated_env_tfvars")
                         /\ spc' = "apply"
    /\ UNCHANGED <<manifests, cwd, pc, args, loc, exc, run, prev, cpc, cr, exit_code, gh, fn, st, wt>>

\* lines 640-681: terraform init and apply, for the dev directory when it
\* exists and a dev project is given, then for the root directory
S_Apply ==
    /\ spc = "apply"
    /\ \E dev \in CmdOutcomes, prod \in CmdOutcomes :
         LET with_dev == Exists(fs, Append(tf_dir, "dev")) /\ Truthy(sc.dev_project)
             failed_dev == with_dev /\ dev # "ok"
             log1 == sc.log \o (IF with_dev THEN <<"terraform_dev">> ELSE <<>>)
                            \o (IF failed_dev THEN <<>> ELSE <<"terraform_prod">>)
         IN  IF failed_dev \/ prod # "ok"
             THEN sc' = [sc EXCEPT !.log = log1, !.exc = "CalledProcessError"] /\ spc' = "raised"
             ELSE sc' = [sc EXCEPT !.log = log1] /\ spc' = "git"
    /\ UNCHANGED <<fs, manifests, cwd, pc, args, loc, exc, run, prev, cpc, cr, out, exit_code, gh, fn, st, wt>>

\* lines 683-712: the local git repository and its remote
S_Git ==
    /\ spc = "git"
    /\ IF sc.git_provider = "github"
       THEN \E init \in CmdOutcomes, user \in CmdOutcomes, remote \in CmdOutcomes :
              LET missing == ~Exists(fs, Append(cwd, ".git"))
                  failed_init == missing /\ init # "ok"
                  log1 == sc.log \o (IF missing THEN <<"git_init">> ELSE <<>>)
                                 \o (IF failed_init THEN <<>> ELSE <<"gh_api_user">>)
                                 \o (IF failed_init \/ user # "ok" THEN <<>> ELSE <<"git_remote">>)
              IN  /\ fs' = IF missing /\ ~failed_init THEN MkdirParents(fs, Append(cwd, ".git"))
                           ELSE fs
                  /\ IF failed_init \/ user # "ok" \/ remote # "ok"
                     THEN sc' = [sc EXCEPT !.log = log1, !.exc = "CalledProcessError"]
                          /\ spc' = "raised"
                     ELSE sc' = [sc EXCEPT !.log = log1] /\ spc' = "summary"
       ELSE fs' = fs /\ sc' = sc /\ spc' = "summary"
    /\ UNCHANGED <<manifests, cwd, pc, args, loc, exc, run, prev, cpc, cr, out, exit_code, gh, fn, st, wt>>

\* lines 714-740: the closing messages; a failure of the summary is printed
\* and ends the process with sys.exit(1)
S_Summary ==
    /\ spc = "summary"
    /\ \E user \in CmdOutcomes :
         IF user = "ok"
         THEN /\ sc' = [sc EXCEPT !.log = Append(@, "gh_api_user")]
              /\ out' = out \o <<"setup_complete", "summary">>
              /\ spc' = "returned"
         ELSE /\ sc' = [sc EXCEPT !.log = Append(@, "gh_api_user"), !.exc = "SystemExit"]
              /\ out' = out \o <<"setup_complete", "error_message">>
              /\ spc' = "raised"
    /\ UNCHANGED <<fs, manifests, cwd, pc, args, loc, exc, run, prev, cpc, cr, exit_code, gh, fn, st, wt>>

\* the positions of setup_cicd at which the user is asked something through click
ClickPromptPositions == {"start", "provider", "repository"}

\* Ctrl+C while setup_cicd runs: KeyboardInterrupt is raised at the current
\* statement (click's prompts raise Abort instead) and nothing in setup_cicd
\* or its helpers catches either
S_Interrupt ==
    /\ spc \notin {"none", "returned", "raised"}
    /\ \E e \in {"KeyboardInterrupt", "Abort"} :
         /\ e = "Abort" => spc \in ClickPromptPositions
         /\ sc' = [sc EXCEPT !.exc = e]
         /\ gh' = IF spc = "in_connection" /\ gh.pos \notin {"returned", "raised"}
                  THEN [gh EXCEPT !.pos = "raised", !.exc = e] ELSE gh
    /\ spc' = "raised"
    /\ UNCHANGED <<fs, manifests, cwd, pc, args, loc, exc, run, prev, cpc, cr, out, exit_code, fn, st, wt>>

\* setup_cicd is a plain click command, run by cli() in standalone mode: a
\* return is exit status 0; a UsageError is shown and ends with 2; Abort and
\* KeyboardInterrupt end with "Aborted!" and 1; sys.exit(1) ends with 1; any
\* other exception leaves cli() and the interpreter prints its traceback
S_Exit ==
    /\ spc \in {"returned", "raised"}
    /\ exit_code = <<>>
    /\ IF spc = "returned" THEN exit_code' = <<0>> /\ out' = out
       ELSE IF sc.exc = "UsageError" THEN exit_code' = <<2>> /\ out' = Append(out, "usage_error")
       ELSE IF sc.exc \in {"Abort", "KeyboardInterrupt"}
            THEN exit_code' = <<1>> /\ out' = Append(out, "aborted")
       ELSE IF sc.exc = "SystemExit" THEN exit_code' = <<1>> /\ out' = out
       ELSE exit_code' = <<1>> /\ out' = Append(out, "traceback")
    /\ UNCHANGED <<fs, manifests, cwd, pc, args, loc, exc, run, prev, cpc, cr, spc, sc, gh, fn, st, wt>>

\* no utility function is applied on its own
NoCall ==
    [name |-> None, src |-> NoPath, dst |-> NoPath, agent_name |-> None,
     overwrite |-> FALSE, deployment_target |-> None, order |-> None,
     before |-> <<>>, agents |-> <<>>, warnings |-> <<>>, config |-> EmptyDict,
     exc |-> None, arg |-> "", ret |-> "", targets |-> <<>>]

\* st.session_state before the script's first run
NoSession ==
    [session_id |-> None, run_id |-> None, user_chats |-> <<>>, uuids |-> 0,
     buttons |-> {}, last |-> "none"]

\* the watch utility before it is started
NoWatch ==
    [main |-> "none", observer |-> "none", now |-> 0, last_rebuild |-> 0,
     events |-> <<>>, arrived |-> 0, accepted |-> <<>>, failed |-> FALSE]

(***************************************************************************)
(* Initial states: the repository's source trees and the call's arguments  *)
(***************************************************************************)

AgentNames == {"langgraph_base_react", "multimodal_live_api"}

\* the content of the file a layer holds at a relative path: distinct per layer
\* and path, with the project-name placeholder and the default region in it;
\* the Makefile has CRLF line ends and a data store region setting
Content(layer, rel) ==
    layer \o PathStr(rel) \o " name=" \o ProjectNamePlaceholder \o " region=us-central1"
        \o (IF rel = <<"Makefile">> THEN "\r\ndata_store_region = \"us\"\r\n" ELSE "")

\* the tree of a layer: its root, and the files it holds with their directories
TreeOf(root, layer, files) ==
    [q \in Prefixes(root) \cup UNION {Prefixes(PathJoin(root, r)) : r \in files} |->
        IF \E r \in files : q = PathJoin(root, r)
        THEN FileNode(Content(layer, RelTo(q, root)))
        ELSE DirNode]

AppAgent == <<"app", "agent.py">>

AppUtilsTyping == <<"app", "utils", "typing.py">>

AppPyc == <<"app", "__pycache__", "agent.cpython-311.pyc">>

FrontendSideBar == <<"frontend", "side_bar.py">>

DataIngestionPipeline == <<"pipeline.py">>

\* the files the base template, the frontend module and the agent template may
\* hold, relative to their roots
BaseCandidates == {AppAgent, AppUtilsTyping}

\* the files of the cloud_run overlay
DeploymentCandidates == {AppAgent}

FrontendCandidates == {FrontendSideBar, <<"data_ingestion">> \o DataIngestionPipeline}

AgentCandidates == {AppAgent, AppUtilsTyping, FrontendSideBar}

LockContent == "name = " \o ProjectNamePlaceholder \o " # " \o ProjectNamePlaceholder

\* the repository with the given layer contents; locks: the (agent, target)
\* pairs that have a lock file
RepoFS(agent_name, base, deployment, frontend, agent, locks, has_manifest) ==
    TreeOf(base_template_path, "base", {<<"Makefile">>} \cup base)
    @@ TreeOf(deployment_path("cloud_run"), "cloud_run", deployment)
    @@ TreeOf(deployment_path("agent_engine"), "agent_engine", {<<"app", "agent_engine_app.py">>})
    @@ TreeOf(data_ingestion_src, "data_ingestion", {DataIngestionPipeline})
    @@ TreeOf(frontends_path(DEFAULT_FRONTEND), "frontend", frontend)
    @@ TreeOf(agents_dir \o <<agent_name>>, "agent",
              {AppPyc, <<"README.md">>} \cup agent
                \cup (IF has_manifest THEN {<<"template", TEMPLATE_CONFIG_FILE>>} ELSE {}))
    @@ TreeOf(template_path_of(agent_name), "agent", {})
    @@ [l \in {lock_path(agent_name, t) : t \in locks} |-> FileNode(LockContent)]
    @@ TreeOf(<<"repo", "src", "resources", "locks">>, "locks", {})

\* the directories outside the repository
HostFS == TreeOf(<<"work">>, "host", {}) @@ TreeOf(<<"out">>, "host", {}) @@ TreeOf(<<"tmp">>, "host", {})

\* a project directory left by an earlier command
OldProject(dir) == TreeOf(dir, "old", {<<"old.txt">>})

ManifestDoc(settings) ==
    [name |-> "agent", description |-> "An agent", settings |-> settings]

BothTargets == YamlList(<<"agent_engine", "cloud_run">>)

ExtraDeps == <<"langgraph~=0.2.63">>

\* the manifests of the composition family: data ingestion required or not
ComposeManifests ==
    {[parse |-> "ok",
      doc |-> ManifestDoc([requires_data_ingestion |-> r, deployment_targets |-> BothTargets,
                           extra_dependencies |-> ExtraDeps])] : r \in BOOLEAN}

\* the manifests of the exit-path family: unparsable, an empty file, {}, and the
\* deployment targets as a list or as a single string
ExitManifests ==
    {[parse |-> "error", doc |-> EmptyDict], [parse |-> "empty", doc |-> EmptyDict],
     [parse |-> "ok", doc |-> EmptyDict]}
    \cup {[parse |-> "ok", doc |-> ManifestDoc([deployment_targets |-> t])] :
            t \in {BothTargets, YamlList(<<"cloud_run">>), YamlStr("cloud_run")}}
    \cup {[parse |-> "ok",
           doc |-> ManifestDoc([requires_data_ingestion |-> TRUE,
                                deployment_targets |-> YamlStr("agent_engine"),
                                frontend_type |-> "live_api_react"])]}

\* the file map of one agent's manifest
ManifestAt(agent_name, m) ==
    [p \in {Append(template_path_of(agent_name), TEMPLATE_CONFIG_FILE)} |-> m]

Args(agent_name, deployment_target, include, output_dir) ==
    [agent_name |-> agent_name,
     template_dir |-> template_path_of(agent_name),
     project_name |-> "proj-1",
     deployment_target |-> deployment_target,
     include_data_ingestion |-> include,
     output_dir |-> output_dir]

InitCommon ==
    /\ exit_code = <<>>
    /\ spc = "none"
    /\ sc = NoCicd
    /\ gh = NoGh
    /\ fn = NoCall
    /\ st = NoSession
    /\ wt = NoWatch
    /\ cpc = "none"
    /\ cr = NoCreate
    /\ out = <<>>
    /\ cwd = <<"work">>
    /\ pc = "call"
    /\ loc = NoLocals
    /\ exc = None
    /\ run = 1
    /\ prev = [done |-> FALSE, project_name |-> "", tree |-> <<>>]

\* composition family: the layers vary, the call is a plain one
InitCompose ==
    /\ \E agent_name \in AgentNames, base \in SUBSET BaseCandidates,
          frontend \in SUBSET FrontendCandidates,
          agent \in SUBSET AgentCandidates, m \in ComposeManifests, include \in BOOLEAN :
         /\ fs = RepoFS(agent_name, base, DeploymentCandidates, frontend, agent, {"cloud_run"}, TRUE)
                 @@ HostFS
         /\ manifests = ManifestAt(agent_name, m)
         /\ args = Args(agent_name, "cloud_run", include, <<"out">>)
    /\ InitCommon

\* exit-path family: the layers are fixed; the manifest, the requested target,
\* the output directory, an earlier project directory and the lock files vary
InitExit ==
    /\ \E ms \in {ManifestAt("langgraph_base_react", m) : m \in ExitManifests} \cup {<<>>},
          deployment_target \in {None, "cloud_run", "agent_engine"},
          include \in BOOLEAN,
          output_dir \in {NoPath, <<"out">>, <<"new", "out">>},
          old \in BOOLEAN,
          locks \in {{}, {"cloud_run", "agent_engine"}} :
         /\ fs = RepoFS("langgraph_base_react", {AppAgent}, DeploymentCandidates, {FrontendSideBar},
                        {AppAgent}, locks, ms # <<>>)
                 @@ HostFS
                 @@ (IF old
                     THEN OldProject(Append(IF output_dir = NoPath THEN <<"work">> ELSE output_dir,
                                            "proj-1"))
                     ELSE <<>>)
         /\ manifests = ms
         /\ args = Args("langgraph_base_react", deployment_target, include, output_dir)
    /\ InitCommon

Regions == {"us-central1", "us-east4", "europe-west4", "asia-east1", "eu-west1",
            "australia-southeast1"}

ProjectNames == {"proj-1", "My_Proj", "a-project-name-of-27-chars."}

AgentOptions == {None, "langgraph_base_react", "1", " 1", "2", "-1", "1_", "no_such_agent"}

\* the command-line arguments of create
CreateArgs(name, agent, target, include, output_dir, approve, region, from_cli, skip) ==
    [NoCreate EXCEPT !.project_name = name, !.agent = agent,
                     !.deployment_target = target,
                     !.include_data_ingestion = include, !.output_dir = output_dir,
                     !.auto_approve = approve, !.region = region,
                     !.region_from_cli = from_cli, !.skip_checks = skip]

\* the project directory create will test for
CreateProjectPath(project_name, output_dir) ==
    Append(IF output_dir = NoPath THEN <<"work">> ELSE output_dir,
           IF Len(project_name) > 26 THEN project_name
           ELSE normalize_project_name(project_name).name)

\* create family: the command is run from <<"work">>; either the name, the
\* agent option, the output directory and an earlier project directory vary, or
\* the region, its source, the prompts' switches and the deployment target do
InitCreate ==
    /\ \E project_name \in ProjectNames, agent \in AgentOptions,
          output_dir \in {NoPath, <<"out">>}, old \in BOOLEAN,
          m \in ComposeManifests,
          deployment_target \in {None, "cloud_run"},
          auto_approve \in BOOLEAN, region \in Regions, region_from_cli \in BOOLEAN,
          skip_checks \in BOOLEAN, include \in BOOLEAN :
         /\ \/ /\ deployment_target = "cloud_run" /\ auto_approve /\ skip_checks
               /\ region = "us-central1" /\ ~region_from_cli /\ ~include
            \/ /\ project_name = "proj-1" /\ agent = "langgraph_base_react"
               /\ output_dir = <<"out">> /\ ~old
               /\ region_from_cli \/ region = "us-central1"
         /\ fs = RepoFS("langgraph_base_react", {AppAgent}, DeploymentCandidates,
                        {FrontendSideBar}, {AppAgent}, {"cloud_run", "agent_engine"}, TRUE)
                 @@ HostFS
                 @@ (IF old THEN OldProject(CreateProjectPath(project_name, output_dir))
                     ELSE <<>>)
         /\ manifests = ManifestAt("langgraph_base_react", m)
         /\ cr = CreateArgs(project_name, agent, deployment_target, include, output_dir,
                            auto_approve, region, region_from_cli, skip_checks)
    /\ exit_code = <<>>
    /\ spc = "none"
    /\ sc = NoCicd
    /\ gh = NoGh
    /\ fn = NoCall
    /\ st = NoSession
    /\ wt = NoWatch
    /\ cpc = "start"
    /\ out = <<>>
    /\ cwd = <<"work">>
    /\ pc = "idle"
    /\ args = NoArgs
    /\ loc = NoLocals
    /\ exc = None
    /\ run = 1
    /\ prev = [done |-> FALSE, project_name |-> "", tree |-> <<>>]

Init == InitCompose \/ InitExit \/ InitCreate

Next ==
    \/ PT_Enter
    \/ PT_Pass1Base
    \/ PT_Pass2Deployment
    \/ PT_Pass3DataIngestion
    \/ PT_Pass4Frontend
    \/ PT_Pass5Agent
    \/ PT_Validate
    \/ PT_Manifest
    \/ PT_Render
    \/ PT_Move
    \/ PT_Lock
    \/ PT_Exit
    \/ PT_CallAgain
    \/ C_Start
    \/ C_CheckExists
    \/ C_SelectAgent
    \/ C_DataIngestion
    \/ C_Deployment
    \/ C_Region
    \/ C_GcpSetup
    \/ C_CallTemplate
    \/ C_TemplateRaised
    \/ C_ReplaceRegion
    \/ C_Interrupt
    \/ handle_cli_error

Spec == Init /\ [][Next]_vars

(***************************************************************************)
(* setup-cicd runs: a generated project, the packaged terraform files and  *)
(* the command's options                                                   *)
(***************************************************************************)

\* a tree holding the given files (path -> content) and their directories
FileTree(files) ==
    [q \in UNION {Prefixes(p) : p \in DOMAIN files} |->
        IF q \in DOMAIN files THEN FileNode(files[q]) ELSE DirNode]

EnvTfvars ==
    "staging_project_id = \"s\"\nprod_project_id=\"p\"\ncicd_runner_project_id  =  \"c\"\n"
    \o "host_connection_name = \"h\"\nrepository_name = \"r\"\n"
    \o "repository_owner = \"o\"\nconnection_exists = false\nregion = \"us-central1\"\n"

DevTfvars == "dev_project_id = \"d\"\r\nregion = \"us-central1\"\r\n"

BuildTriggers ==
    "resource \"t\" {\n  " \o BuildTriggerRepositoryOld \o "\n  " \o BuildTriggerDependsOld \o "\n}\n"

\* the project directory the command is run in, and the package's resources
CicdFS(pyproject, env, dev) ==
    FileTree((cicd_utils_path \o <<"github.tf">> :> "resource \"github\" {}\n")
             @@ (cicd_utils_path \o <<"README.md">> :> "setup")
             @@ (<<"work", "deployment", "terraform", "build_triggers.tf">> :> BuildTriggers)
             @@ (<<"work", "deployment", "README.md">> :> "deployment")
             @@ (IF pyproject THEN <<"work", "pyproject.toml">> :> "[project]\n" ELSE <<>>)
             @@ (IF env THEN <<"work", "deployment", "terraform", "vars", "env.tfvars">> :> EnvTfvars
                 ELSE <<>>)
             @@ (IF dev
                 THEN <<"work", "deployment", "terraform", "dev", "vars", "env.tfvars">> :> DevTfvars
                 ELSE <<>>))

\* the command-line options of setup-cicd
CicdArgs(dev_project, repo, owner, pat, installation_id, provider, local_state, approve) ==
    [NoCicd EXCEPT !.dev_project = dev_project, !.staging_project = "stg-p",
                   !.prod_project = "prod-p", !.cicd_project = "cicd-p",
                   !.region = "us-central1", !.repository_name = repo,
                   !.repository_owner = owner, !.github_pat = pat,
                   !.github_app_installation_id = installation_id,
                   !.git_provider = provider, !.local_state = local_state,
                   !.auto_approve = approve]

\* no create and no process_template call is under way
InitIdle ==
    /\ manifests = <<>>
    /\ cwd = <<"work">>
    /\ pc = "idle"
    /\ args = NoArgs
    /\ loc = NoLocals
    /\ exc = None
    /\ run = 1
    /\ prev = [done |-> FALSE, project_name |-> "", tree |-> <<>>]
    /\ cpc = "none"
    /\ cr = NoCreate
    /\ out = <<>>
    /\ exit_code = <<>>

\* setup-cicd family: either the project's terraform files, the dev project and
\* the state's place vary, or the project root, the confirmation, the provider,
\* the credentials and the repository options do
InitCicd ==
    /\ \E pyproject \in BOOLEAN, env \in BOOLEAN, dev \in BOOLEAN,
          dev_project \in {None, "dev-p"}, local_state \in BOOLEAN,
          auto_approve \in BOOLEAN, provider \in {None, "github"},
          pat \in {None, "ghp_token"}, installation_id \in {None, "777"},
          repo \in {None, "my-repo"} :
         /\ \/ /\ pyproject /\ auto_approve /\ provider = "github" /\ repo = "my-repo"
               /\ (pat = None) = (installation_id = None)
            \/ /\ env /\ dev /\ dev_project = "dev-p" /\ local_state
               /\ installation_id = None => pat = None
         /\ fs = CicdFS(pyproject, env, dev)
         /\ sc = CicdArgs(dev_project, repo, IF repo = None THEN None ELSE "owner-1", pat,
                          installation_id, provider, local_state, auto_approve)
    /\ spc = "start"
    /\ gh = NoGh
    /\ fn = NoCall
    /\ st = NoSession
    /\ wt = NoWatch
    /\ InitIdle

NextCicd ==
    \/ S_Start
    \/ S_Provider
    \/ S_Repository
    \/ S_EnableApis
    \/ S_Connection
    \/ GH_Repository
    \/ GH_Create
    \/ GH_Poll
    \/ S_ConnectionReturned
    \/ S_CopyTerraform
    \/ S_Backend
    \/ S_UpdateVars
    \/ S_Apply
    \/ S_Git
    \/ S_Summary
    \/ S_Interrupt
    \/ S_Exit

SpecCicd == InitCicd /\ [][NextCicd]_vars

\* the wait loop keeps running: each describe command returns, each sleep ends
FairCicd == SpecCicd /\ WF_vars(GH_Poll)

(***************************************************************************)
(* The utility functions applied on their own: copy_files on a source and  *)
(* a destination tree, get_available_agents and load_template_config on an *)
(* agents directory                                                        *)
(***************************************************************************)

CopySrc == <<"repo", "agents", "multimodal_live_api">>

CopyDst == <<"tmp", "proj">>

AppCachePyc == <<"app", "cache.pyc">>

TestUtils == <<"tests", "unit", "test_utils", "helper.py">>

Readme == <<"README.md">>

\* the files the source tree may hold
CopySrcCandidates == {AppAgent, AppUtilsTyping, AppPyc, AppCachePyc, TestUtils, Readme}

\* the files the destination may hold before the call: some at paths of the
\* source, some of its own
CopyDstCandidates == {AppAgent, AppUtilsTyping, AppCachePyc, <<"app", "own.py">>, <<"own.txt">>}

\* the agent names copy_files is called with
CopyAgentNames == {None, "multimodal_live_api", "langgraph_base_react"}

\* copy_files(src, dst, agent_name, overwrite), for a directory or a file of
\* the source tree
F_CopyFiles ==
    /\ fn.name = None
    /\ IsDir(fs, CopySrc)
    /\ \E rel \in {<<>>} \cup {r \in {Readme, AppCachePyc} : IsFile(fs, PathJoin(CopySrc, r))},
          agent_name \in CopyAgentNames, overwrite \in BOOLEAN, order \in Orders :
         LET src == PathJoin(CopySrc, rel)
             dst == PathJoin(CopyDst, rel)
         IN  /\ rel # <<>> => IsDir(fs, PathParent(dst))
             /\ fs' = copy_files(fs, src, dst, agent_name, overwrite, order)
             /\ fn' = [NoCall EXCEPT !.name = "copy_files", !.src = src, !.dst = dst,
                                     !.agent_name = agent_name, !.overwrite = overwrite,
                                     !.order = order, !.before = fs]
    /\ UNCHANGED <<manifests, cwd, pc, args, loc, exc, run, prev, cpc, cr, out, exit_code, spc, sc, gh, st, wt>>

\* the deployment targets get_available_agents is called with
AgentFilterTargets == {None, "", "cloud_run", "agent_engine"}

\* get_available_agents(deployment_target)
F_GetAvailableAgents ==
    /\ fn.name = None
    /\ IsDir(fs, agents_dir)
    /\ ~IsDir(fs, CopyDst)
    /\ \E deployment_target \in AgentFilterTargets, order \in Orders :
         fn' = [NoCall EXCEPT
                  !.name = "get_available_agents",
                  !.deployment_target = deployment_target, !.order = order,
                  !.agents = get_available_agents(fs, manifests, deployment_target, order),
                  !.warnings = scanned_agents(fs, manifests, deployment_target, order).warnings]
    /\ UNCHANGED <<fs, manifests, cwd, pc, args, loc, exc, run, prev, cpc, cr, out, exit_code, spc, sc, gh, st, wt>>

\* load_template_config(template_dir) for the template directory of an entry
\* of the agents directory; neither of its paths raises
F_LoadTemplateConfig ==
    /\ fn.name = None
    /\ IsDir(fs, agents_dir)
    /\ ~IsDir(fs, CopyDst)
    /\ \E name \in Entries(fs, agents_dir) :
         fn' = [NoCall EXCEPT
                  !.name = "load_template_config", !.src = template_path_of(name),
                  !.config = load_template_config(fs, manifests, template_path_of(name))]
    /\ UNCHANGED <<fs, manifests, cwd, pc, args, loc, exc, run, prev, cpc, cr, out, exit_code, spc, sc, gh, st, wt>>

\* get_deployment_targets(agent_name) for an entry of the agents directory; a
\* manifest that holds a list is truthy and has no `get`: AttributeError
F_GetDeploymentTargets ==
    /\ fn.name = None
    /\ IsDir(fs, agents_dir)
    /\ ~IsDir(fs, CopyDst)
    /\ \E agent_name \in Entries(fs, agents_dir) :
         LET config_file == Append(template_path_of(agent_name), TEMPLATE_CONFIG_FILE)
             config == load_template_config(fs, manifests, template_path_of(agent_name))
         IN  IF DOMAIN config # {} /\ manifests[config_file].parse = "list"
             THEN fn' = [NoCall EXCEPT !.name = "get_deployment_targets",
                                       !.agent_name = agent_name, !.exc = "AttributeError"]
             ELSE fn' = [NoCall EXCEPT !.name = "get_deployment_targets",
                                       !.agent_name = agent_name,
                                       !.targets = get_deployment_targets(fs, manifests, agent_name)]
    /\ UNCHANGED <<fs, manifests, cwd, pc, args, loc, exc, run, prev, cpc, cr, out, exit_code, spc, sc, gh, st, wt>>

\* the project directory of the replace_region_in_files calls
RegionProject == <<"home", "my-agent">>

\* the four spellings of the data store region setting, as written for token t
DataStoreVariants(t) ==
    <<"data_store_region = \"" \o t \o "\"", "data_store_region=\"" \o t \o "\"",
      "data-store-region=\"" \o t \o "\"", "_DATA_STORE_REGION: " \o t>>

\* a file with the default region and the chosen spellings, one per line
RECURSIVE VariantLines(_, _)
VariantLines(chosen, i) ==
    IF i > 4 THEN ""
    ELSE (IF i \in chosen THEN DataStoreVariants("us")[i] \o "\n" ELSE "")
         \o VariantLines(chosen, i + 1)

\* the other files a project may hold: one in a directory the walk skips, one
\* with an extension it does not look at, one that does not decode, one with
\* nothing to replace and CRLF line ends
RegionFileCandidates ==
    {[path |-> <<".venv", "lib", "site.py">>, data |-> "region = us-central1\n"],
     [path |-> <<"notes.txt">>, data |-> "region = us-central1\n"],
     [path |-> <<"data", "blob.py">>, data |-> InvalidByte \o "us-central1\n"],
     [path |-> <<"README.md">>, data |-> "my agent\r\n"],
     [path |-> <<"app", "agent.py">>, data |-> "LOCATION = \"us-central1\"\n"]}

\* the regions replace_region_in_files is called with
NewRegions == {"us-east4", "europe-west4", "asia-east1", "eu-west1"}

\* replace_region_in_files(project_path, new_region)
F_ReplaceRegionInFiles ==
    /\ fn.name = None
    /\ IsDir(fs, RegionProject)
    /\ \E new_region \in NewRegions :
         /\ fs' = replace_region_in_files(fs, RegionProject, new_region)
         /\ fn' = [NoCall EXCEPT !.name = "replace_region_in_files", !.src = RegionProject,
                                 !.arg = new_region, !.before = fs]
    /\ UNCHANGED <<manifests, cwd, pc, args, loc, exc, run, prev, cpc, cr, out, exit_code, spc, sc, gh, st, wt>>

\* the longest project name the calls of normalize_project_name are given
MaxNameLen == 3

\* the characters of those names: a lower-case and an upper-case letter, the
\* underscore, the hyphen, and the two characters outside ASCII
NameAlphabet == {"a", "B", "_", "-", DottedCapitalI, BoldCapitalA}

RECURSIVE NamesUpTo(_)
NamesUpTo(n) ==
    IF n = 0 THEN {""}
    ELSE NamesUpTo(n - 1) \cup {s \o c : s \in NamesUpTo(n - 1), c \in NameAlphabet}

\* normalize_project_name(project_name); the function reads no file, and is
\* applied where there is none
F_NormalizeProjectName ==
    /\ fn.name = None
    /\ DOMAIN fs = {}
    /\ \E project_name \in NamesUpTo(MaxNameLen) \ {""} :
         fn' = [NoCall EXCEPT !.name = "normalize_project_name", !.arg = project_name,
                              !.ret = normalize_project_name(project_name).name]
    /\ UNCHANGED <<fs, manifests, cwd, pc, args, loc, exc, run, prev, cpc, cr, out, exit_code, spc, sc, gh, st, wt>>

(***************************************************************************)
(* Initial states of the utility function calls                            *)
(***************************************************************************)

\* region family: a project whose Makefile holds any of the four spellings,
\* and any of the other files
InitRegion ==
    /\ \E chosen \in SUBSET (1..4), others \in SUBSET RegionFileCandidates :
         fs = FileTree([p \in {PathJoin(RegionProject, <<"Makefile">>)} |->
                           "REGION = us-central1\n" \o VariantLines(chosen, 1)])
              @@ FileTree([p \in {PathJoin(RegionProject, o.path) : o \in others} |->
                             (CHOOSE o \in others : PathJoin(RegionProject, o.path) = p).data])
    /\ manifests = <<>>

\* no file at all: the calls of the functions that read none
InitBare == fs = <<>> /\ manifests = <<>>

\* copy family: the files of the source tree and of the destination vary
InitCopy ==
    /\ \E src \in SUBSET CopySrcCandidates, dst \in SUBSET CopyDstCandidates :
         fs = TreeOf(CopySrc, "agent", src) @@ TreeOf(CopyDst, "old", dst)
    /\ manifests = <<>>

\* a manifest that holds a mapping
OkManifest(doc) == [parse |-> "ok", doc |-> doc]

\* the entries the agents directory may hold, with what their manifest file,
\* if any, parses to: well-formed agents (the deployment targets as a list, as
\* a single string, or absent), a manifest that does not parse, an empty one,
\* one that holds a list, a directory the scan leaves out by its name, and a
\* directory without a manifest
AgentDirCandidates ==
    {[name |-> "langgraph_base_react", manifest |-> TRUE,
      m |-> OkManifest(ManifestDoc([deployment_targets |-> BothTargets]))],
     [name |-> "crewai_coding_crew", manifest |-> TRUE,
      m |-> OkManifest(ManifestDoc([deployment_targets |-> YamlStr("agent_engine")]))],
     [name |-> "agentic_rag", manifest |-> TRUE,
      m |-> OkManifest(ManifestDoc([deployment_targets |-> YamlList(<<"cloud_run">>)]))],
     [name |-> "live_api", manifest |-> TRUE,
      m |-> OkManifest(ManifestDoc([deployment_targets |-> YamlStr("cloud_run")]))],
     [name |-> "plain_agent", manifest |-> TRUE, m |-> OkManifest([name |-> "plain"])],
     [name |-> "broken_yaml", manifest |-> TRUE, m |-> [parse |-> "error", doc |-> EmptyDict]],
     [name |-> "empty_yaml", manifest |-> TRUE, m |-> [parse |-> "empty", doc |-> EmptyDict]],
     [name |-> "list_yaml", manifest |-> TRUE,
      m |-> [parse |-> "list", doc |-> YamlList(<<"cloud_run">>)]],
     [name |-> "__pycache__", manifest |-> TRUE,
      m |-> OkManifest(ManifestDoc([deployment_targets |-> BothTargets]))],
     [name |-> "no_manifest", manifest |-> FALSE, m |-> [parse |-> "error", doc |-> EmptyDict]]}

\* the agents directory with the given entries, and a file beside them
AgentsFS(dirs) ==
    TreeOf(agents_dir, "agents", {Readme})
    @@ FileTree([p \in {template_path_of(d.name) \o <<IF d.manifest THEN TEMPLATE_CONFIG_FILE
                                                       ELSE "README.md">> : d \in dirs}
                 |-> "manifest"])

\* the parse of every manifest file of the given entries
AgentsManifests(dirs) ==
    [p \in {Append(template_path_of(d.name), TEMPLATE_CONFIG_FILE) :
              d \in {x \in dirs : x.manifest}} |->
        (CHOOSE d \in dirs : Append(template_path_of(d.name), TEMPLATE_CONFIG_FILE) = p).m]

\* agents family: the entries of the agents directory vary
InitAgents ==
    \E dirs \in SUBSET AgentDirCandidates :
      /\ fs = AgentsFS(dirs)
      /\ manifests = AgentsManifests(dirs)

InitFn ==
    /\ InitCopy \/ InitAgents \/ InitBare \/ InitRegion
    /\ cwd = <<"work">>
    /\ pc = "idle"
    /\ args = NoArgs
    /\ loc = NoLocals
    /\ exc = None
    /\ run = 1
    /\ prev = [done |-> FALSE, project_name |-> "", tree |-> <<>>]
    /\ cpc = "none"
    /\ cr = NoCreate
    /\ out = <<>>
    /\ exit_code = <<>>
    /\ spc = "none"
    /\ sc = NoCicd
    /\ gh = NoGh
    /\ fn = NoCall
    /\ st = NoSession
    /\ wt = NoWatch

(***************************************************************************)
(* The lock generator: lock_utils.get_agent_configs and generate_locks.main *)
(***************************************************************************)

\* set(value) as Python builds it: the elements of a list, the characters of
\* a string
PySet(v) ==
    IF IsInstanceStr(v) THEN {SubSeq(v.str, i, i) : i \in 1..Len(v.str)} ELSE Range(v.list)

\* get_lock_filename
get_lock_filename(agent_name, deployment_target) ==
    "uv-" \o agent_name \o "-" \o deployment_target \o ".lock"

\* pathlib.Path("src/resources/locks"), the generator being run from the
\* root of the repository
lock_dir == <<"repo", "src", "resources", "locks">>

\* ensure_lock_dir: the directory removed if there, then created anew
ensure_lock_dir(f) == MkdirParents(RmTree(f, lock_dir), lock_dir)

\* the entries get_agent_configs reads: directories with a manifest file
ConfiguredAgents(f, order) ==
    SelectSeq(IterDir(f, agents_dir, order),
              LAMBDA n : /\ IsDir(f, Append(agents_dir, n))
                         /\ Exists(f, Append(template_path_of(n), TEMPLATE_CONFIG_FILE)))

\* what reading one manifest raises: yaml.safe_load on a file that does not
\* parse, config.get on None or on a list; None when it raises nothing
agent_config_error(ms, n) ==
    LET m == ms[Append(template_path_of(n), TEMPLATE_CONFIG_FILE)]
    IN  IF m.parse = "error" THEN "YAMLError"
        ELSE IF m.parse \in {"empty", "list"} THEN "AttributeError"
        ELSE None

\* AgentConfig.targets of one agent
agent_targets(ms, n) ==
    LET config == ms[Append(template_path_of(n), TEMPLATE_CONFIG_FILE)].doc
    IN  PySet(DictGet(Settings(config), "deployment_targets", YamlList(<<>>)))

\* get_agent_configs: the target set of every agent, or the exception of the
\* first manifest that cannot be read
get_agent_configs(f, ms, order) ==
    LET names == ConfiguredAgents(f, order)
        bad == {i \in DOMAIN names : agent_config_error(ms, names[i]) # None}
    IN  IF bad # {}
        THEN Raise(agent_config_error(ms, names[CHOOSE i \in bad : \A j \in bad : i <= j]))
        ELSE Ok([n \in Range(names) |-> agent_targets(ms, n)])

\* generate_locks.main: one lock file per agent and per element of its
\* targets, each the output of uv lock with locked-template replaced by the
\* placeholder (LockContent)
generate_locks_main(f, ms, order) ==
    LET f1 == ensure_lock_dir(f)
        agent_configs == get_agent_configs(f1, ms, order)
    IN  IF agent_configs.exc # None THEN [fs |-> f1, exc |-> agent_configs.exc]
        ELSE LET names == DOMAIN agent_configs.val
                 pairs == {x \in names \X UNION {agent_configs.val[m] : m \in names} :
                             x[2] \in agent_configs.val[x[1]]}
                 written == {Append(lock_dir, get_lock_filename(x[1], x[2])) : x \in pairs}
             IN  [fs |-> [q \in DOMAIN f1 \cup written |->
                            IF q \in written THEN FileNode(LockContent) ELSE f1[q]],
                  exc |-> None]

\* python src/utils/generate_locks.py, run over the agents directory
F_GenerateLocks ==
    /\ fn.name = None
    /\ IsDir(fs, agents_dir)
    /\ ~IsDir(fs, CopyDst)
    /\ \E order \in Orders :
         LET r == generate_locks_main(fs, manifests, order)
         IN  /\ fs' = r.fs
             /\ fn' = [NoCall EXCEPT !.name = "generate_locks", !.order = order,
                                     !.before = fs, !.exc = r.exc]
    /\ UNCHANGED <<manifests, cwd, pc, args, loc, exc, run, prev, cpc, cr, out, exit_code, spc, sc, gh, st, wt>>

NextFn ==
    \/ F_CopyFiles
    \/ F_GetAvailableAgents
    \/ F_LoadTemplateConfig
    \/ F_NormalizeProjectName
    \/ F_GetDeploymentTargets
    \/ F_ReplaceRegionInFiles
    \/ F_GenerateLocks

SpecFn == InitFn /\ [][NextFn]_vars

(***************************************************************************)
(* The Streamlit frontend: one action per run of the script                *)
(***************************************************************************)

EMPTY_CHAT_NAME == "Empty chat"

\* the calls of uuid.uuid4 and the messages of one chat the model follows
MaxUuids == 4

MaxMessages == 2

\* str(uuid.uuid4()): a value no earlier call returned and no saved chat has
Uuid4(s) == "uuid-" \o ToString(s.uuids + 1)

\* an entry of the user_chats dict; the dict is a sequence in insertion order
Chat(id, title, messages) == [id |-> id, title |-> title, messages |-> messages]

\* user_chats.keys()
ChatIds(chats) == {chats[i].id : i \in DOMAIN chats}

\* user_chats[id]
ChatAt(chats, id) == chats[CHOOSE i \in DOMAIN chats : chats[i].id = id]

\* user_chats.pop(id)
ChatsPop(chats, id) == SelectSeq(chats, LAMBDA c : c.id # id)

\* what session_db.get_all_conversations() may hand back: the chats saved by
\* earlier sessions
SavedConversations ==
    {<<>>,
     <<Chat("saved-1", "hello", <<"human", "ai">>)>>,
     <<Chat("saved-1", "hello", <<"human", "ai">>), Chat("saved-2", EMPTY_CHAT_NAME, <<>>)>>}

\* initialize_session_state, on the first run of the script
initialize_session_state(s, saved) ==
    [s EXCEPT !.session_id = Uuid4(s),
              !.uuids = s.uuids + 1,
              !.run_id = None,
              !.user_chats = Append(saved, Chat(Uuid4(s), EMPTY_CHAT_NAME, <<>>))]

\* the buttons of the chats the sidebar renders: "Recent" and "Other chats"
\* together hold one button per chat
RenderChatButtons(s) == [s EXCEPT !.buttons = ChatIds(s.user_chats)]

\* the "+ New chat" branch of init_side_bar
new_chat(s) ==
    IF Len(ChatAt(s.user_chats, s.session_id).messages) > 0
    THEN [s EXCEPT !.run_id = None,
                   !.session_id = Uuid4(s),
                   !.uuids = s.uuids + 1,
                   !.user_chats = Append(s.user_chats, Chat(Uuid4(s), EMPTY_CHAT_NAME, <<>>))]
    ELSE s

\* the "Delete chat" branch without the chat created when none is left
delete_chat_keep_id(s) ==
    LET left == ChatsPop(s.user_chats, s.session_id)
    IN  [s EXCEPT !.run_id = None,
                  !.user_chats = left,
                  !.session_id = IF Len(left) > 0 THEN left[1].id ELSE s.session_id]

\* the "Delete chat" branch of init_side_bar
delete_chat(s) ==
    LET left == ChatsPop(s.user_chats, s.session_id)
    IN  IF Len(left) > 0
        THEN [s EXCEPT !.run_id = None, !.user_chats = left, !.session_id = left[1].id]
        ELSE [s EXCEPT !.run_id = None,
                       !.session_id = Uuid4(s),
                       !.uuids = s.uuids + 1,
                       !.user_chats = <<Chat(Uuid4(s), EMPTY_CHAT_NAME, <<>>)>>]

\* the branch of a chat's button, in "Recent" or in "Other chats"
select_chat(s, chat_id) == [s EXCEPT !.run_id = None, !.session_id = chat_id]

\* handle_user_input with a prompt: the human message appended to the current
\* chat, then the answer, whose run id the response handler stores
handle_user_input(s, run_id) ==
    LET i == CHOOSE j \in DOMAIN s.user_chats : s.user_chats[j].id = s.session_id
    IN  [s EXCEPT !.user_chats[i].messages = @ \o <<"human", "ai">>,
                  !.user_chats[i].title = IF @ = EMPTY_CHAT_NAME THEN "titled" ELSE @,
                  !.run_id = run_id]

UiOthers ==
    <<fs, manifests, cwd, pc, args, loc, exc, run, prev, cpc, cr, out, exit_code, spc, sc, gh, fn, wt>>

\* the first run of the script: main() with no widget used
UI_FirstRun ==
    /\ st.last = "none"
    /\ \E saved \in SavedConversations :
         st' = [RenderChatButtons(initialize_session_state(st, saved)) EXCEPT !.last = "init"]
    /\ UNCHANGED UiOthers

\* a run of the script after a click on "+ New chat"
UI_NewChat ==
    /\ st.last # "none"
    /\ st.uuids < MaxUuids
    /\ st' = [RenderChatButtons(new_chat(st)) EXCEPT !.last = "new_chat"]
    /\ UNCHANGED UiOthers

\* a run of the script after a click on "Delete chat"
UI_DeleteChat ==
    /\ st.last # "none"
    /\ st.uuids < MaxUuids
    /\ st' = [RenderChatButtons(delete_chat(st)) EXCEPT !.last = "delete_chat"]
    /\ UNCHANGED UiOthers

\* a run of the script after a click on the button of a chat on screen
UI_SelectChat ==
    /\ st.last # "none"
    /\ \E chat_id \in st.buttons :
         st' = [RenderChatButtons(select_chat(st, chat_id)) EXCEPT !.last = "select_chat"]
    /\ UNCHANGED UiOthers

\* a run of the script after a prompt was sent, up to its st.rerun()
UI_UserInput ==
    /\ st.last # "none"
    /\ Len(ChatAt(st.user_chats, st.session_id).messages) < MaxMessages
    /\ \E run_id \in {None, "run-1", "run-2"} :
         st' = [RenderChatButtons(handle_user_input(st, run_id)) EXCEPT !.last = "user_input"]
    /\ UNCHANGED UiOthers

InitUi ==
    /\ InitIdle
    /\ fs = <<>>
    /\ spc = "none"
    /\ sc = NoCicd
    /\ gh = NoGh
    /\ fn = NoCall
    /\ st = NoSession
    /\ wt = NoWatch

NextUi ==
    \/ UI_FirstRun
    \/ UI_NewChat
    \/ UI_DeleteChat
    \/ UI_SelectChat
    \/ UI_UserInput

SpecUi == InitUi /\ [][NextUi]_vars

(***************************************************************************)
(* The watch utility: the main thread of watch and the observer thread     *)
(***************************************************************************)

\* TemplateHandler.rebuild_cooldown, in seconds
rebuild_cooldown == 1

\* the clock of the model: time.time() in ticks, TicksPerSecond to the second
TicksPerSecond == 2

\* the ticks the clock advances and the file events that arrive
MaxTicks == 4

MaxEvents == 4

\* time.time() when watch starts: far more than the cooldown after 0, the
\* first value of last_rebuild
StartTicks == 2 * rebuild_cooldown * TicksPerSecond

\* output_dir / project_name for --output-dir target and project my-agent
WatchOutputDir == <<"target">>

WatchProjectPath == <<"target", "my-agent">>

\* what the body of rebuild_template may raise: nothing, the create command
\* exiting with an error, rmtree failing
RebuildResults == {None, "CalledProcessError", "OSError"}

\* the except clauses of rebuild_template: what leaves the function
rebuild_escapes(e) == IF e \in {None, "CalledProcessError", "OSError"} THEN None ELSE e

\* the first half of rebuild_template: the project directory removed
rebuild_clean(f) == IF Exists(f, WatchProjectPath) THEN RmTree(f, WatchProjectPath) ELSE f

\* the second half: the create command leaves the project when it succeeds
rebuild_create(f, result) ==
    IF result = None
    THEN WriteFile(MkdirParents(f, WatchProjectPath),
                   Append(WatchProjectPath, "pyproject.toml"), "generated")
    ELSE f

\* the state of a thread that ran rebuild_template to its end
AfterRebuild(result, alive) == IF rebuild_escapes(result) = None THEN alive ELSE "dead"

WtOthers ==
    <<manifests, cwd, pc, args, loc, exc, run, prev, cpc, cr, out, exit_code, spc, sc, gh, fn, st>>

\* watch, up to observer.start(): the directories checked, the output
\* directory created, the handler made and both directories scheduled
W_Start ==
    /\ wt.main = "none"
    /\ IF ~Exists(fs, agents_dir) \/ ~Exists(fs, SrcRoot)
       THEN /\ wt' = [wt EXCEPT !.main = "raised"]
            /\ fs' = fs
       ELSE /\ wt' = [wt EXCEPT !.main = "started", !.observer = "idle",
                                !.now = StartTicks, !.last_rebuild = 0]
            /\ fs' = MkdirParents(fs, WatchOutputDir)
    /\ UNCHANGED WtOthers

\* the main thread enters rebuild_template for the initial build
W_InitialBuildBegin ==
    /\ wt.main = "started"
    /\ wt' = [wt EXCEPT !.main = "building"]
    /\ fs' = rebuild_clean(fs)
    /\ UNCHANGED WtOthers

\* the initial build ends; the main thread goes on to its sleep loop
W_InitialBuildEnd ==
    /\ wt.main = "building"
    /\ \E result \in RebuildResults :
         /\ wt' = [wt EXCEPT !.main = AfterRebuild(result, "sleeping"),
                             !.failed = (@ \/ result # None)]
         /\ fs' = rebuild_create(fs, result)
    /\ UNCHANGED WtOthers

\* time passes
W_Tick ==
    /\ wt.observer # "none"
    /\ wt.main \notin {"stopped", "dead"}
    /\ wt.now < StartTicks + MaxTicks
    /\ wt' = [wt EXCEPT !.now = @ + 1]
    /\ UNCHANGED <<fs, WtOthers>>

\* a file or a directory below src/ or agents/ is modified: the event queued
W_Event ==
    /\ wt.observer \in {"idle", "building"}
    /\ wt.main \in {"started", "building", "sleeping"}
    /\ wt.arrived < MaxEvents
    /\ \E is_directory \in BOOLEAN :
         wt' = [wt EXCEPT !.events = Append(@, [is_directory |-> is_directory]),
                          !.arrived = @ + 1]
    /\ UNCHANGED <<fs, WtOthers>>

\* on_modified, up to its call of rebuild_template
on_modified(w) ==
    IF Head(w.events).is_directory
    THEN [w EXCEPT !.events = Tail(@)]
    ELSE IF w.now - w.last_rebuild < rebuild_cooldown * TicksPerSecond
    THEN [w EXCEPT !.events = Tail(@)]
    ELSE [w EXCEPT !.events = Tail(@), !.last_rebuild = w.now,
                   !.accepted = Append(@, w.now), !.observer = "building"]

\* the observer thread dispatches the next event of its queue
O_OnModified ==
    /\ wt.observer = "idle"
    /\ wt.main \in {"started", "building", "sleeping"}
    /\ wt.events # <<>>
    /\ wt' = on_modified(wt)
    /\ fs' = IF wt'.observer = "building" THEN rebuild_clean(fs) ELSE fs
    /\ UNCHANGED WtOthers

\* the rebuild on the observer thread ends; on_modified returns
O_RebuildEnd ==
    /\ wt.observer = "building"
    /\ \E result \in RebuildResults :
         /\ wt' = [wt EXCEPT !.observer = AfterRebuild(result, "idle"),
                             !.failed = (@ \/ result # None)]
         /\ fs' = rebuild_create(fs, result)
    /\ UNCHANGED WtOthers

\* Ctrl+C in the main thread: observer.stop()
W_Interrupt ==
    /\ wt.main \in {"started", "building", "sleeping"}
    /\ wt' = [wt EXCEPT !.main = "stopping"]
    /\ UNCHANGED <<fs, WtOthers>>

\* observer.join(): the observer thread has ended
W_Join ==
    /\ wt.main = "stopping"
    /\ wt.observer = "idle"
    /\ wt' = [wt EXCEPT !.main = "stopped", !.observer = "stopped"]
    /\ UNCHANGED <<fs, WtOthers>>

\* watch family: the repository's directories, and a project left by an
\* earlier build or not
InitWatch ==
    /\ InitIdle
    /\ \E dirs \in SUBSET {SrcRoot, agents_dir}, old \in BOOLEAN :
         fs = FileTree([p \in {Append(d, "README.md") : d \in dirs}
                              \cup {q \in {Append(WatchProjectPath, "old.txt")} : old} |-> "old"])
    /\ spc = "none"
    /\ sc = NoCicd
    /\ gh = NoGh
    /\ fn = NoCall
    /\ st = NoSession
    /\ wt = NoWatch

NextWatch ==
    \/ W_Start
    \/ W_InitialBuildBegin
    \/ W_InitialBuildEnd
    \/ W_Tick
    \/ W_Event
    \/ O_OnModified
    \/ O_RebuildEnd
    \/ W_Interrupt
    \/ W_Join

SpecWatch == InitWatch /\ [][NextWatch]_vars

(***************************************************************************)
(* Vocabulary of the properties                                            *)
(***************************************************************************)

\* the working directory every behaviour starts in
InitialCwd == <<"work">>

\* the working tree process_template composes
Proj == project_template(TempDir)

\* pass 5 has run and the temporary directory still exists
AfterPass5 == pc \in {"validate", "manifest", "render", "move", "lock", "exit"}

\* the generated manifest is written: the tree is the one handed to the renderer
Composed == pc \in {"render", "move", "lock", "exit"} /\ DOMAIN loc.cookiecutter_config # {}

\* no entry on the way from root down to q is skipped by the copy of root
NotSkippedBelow(q, root, agent_name) ==
    \A k \in (Len(root) + 1)..Len(q) : ~should_skip(SubSeq(q, 1, k), agent_name)

\* the files a copy of root contributes, by relative path
Supplied(f, root, agent_name) ==
    {RelTo(q, root) : q \in {x \in DOMAIN f : /\ IsUnder(x, root)
                                              /\ IsFile(f, x)
                                              /\ NotSkippedBelow(x, root, agent_name)}}

\* the manifest document of the agent as written, {} if it has none
ManifestFile == Append(args.template_dir, TEMPLATE_CONFIG_FILE)

RawDoc == IF Exists(fs, ManifestFile) THEN manifests[ManifestFile].doc ELSE EmptyDict

RawSettings == IF "settings" \in DOMAIN RawDoc THEN RawDoc.settings ELSE EmptyDict

ManifestRequires ==
    "requires_data_ingestion" \in DOMAIN RawSettings /\ RawSettings.requires_data_ingestion

\* the frontend directory pass 4 copies
FrontendRoot ==
    LET ft == IF "frontend_type" \in DOMAIN RawSettings THEN RawSettings.frontend_type
              ELSE DEFAULT_FRONTEND
    IN  IF Exists(fs, frontends_path(ft)) THEN frontends_path(ft)
        ELSE frontends_path(DEFAULT_FRONTEND)

\* C1: every non-skipped file the agent template supplies under an override
\* folder is in the composed tree with the agent's content, whatever the
\* earlier layers supplied there
C1_AgentLayerWins ==
    AfterPass5 =>
        \A i \in DOMAIN OVERWRITE_FOLDERS :
            LET agent_folder == Append(agent_path_of(args), OVERWRITE_FOLDERS[i])
            IN  \A r \in Supplied(fs, agent_folder, args.agent_name) :
                    LET p == PathJoin(Append(Proj, OVERWRITE_FOLDERS[i]), r)
                    IN  IsFile(fs, p) /\ fs[p].data = fs[PathJoin(agent_folder, r)].data

\* C1 witness: the base template and the agent both supply app/agent.py and
\* the composed tree holds the agent's
C1_Witness ==
    /\ AfterPass5
    /\ IsFile(fs, PathJoin(base_template_path, AppAgent))
    /\ IsFile(fs, PathJoin(agent_path_of(args), AppAgent))
    /\ fs[PathJoin(Proj, AppAgent)].data = fs[PathJoin(agent_path_of(args), AppAgent)].data
    /\ fs[PathJoin(Proj, AppAgent)].data # fs[PathJoin(base_template_path, AppAgent)].data

\* the five layers in the order of the passes: each a source root, the place
\* in the project it is copied to, and the agent name its skip predicate gets
Layers ==
    <<[on |-> TRUE, root |-> base_template_path, to |-> <<>>, agent |-> args.agent_name],
      [on |-> Truthy(args.deployment_target)
                /\ args.deployment_target \in Range(DEPLOYMENT_FOLDERS)
                /\ Exists(fs, deployment_path(args.deployment_target)),
       root |-> deployment_path(IF Truthy(args.deployment_target)
                                THEN args.deployment_target ELSE "cloud_run"),
       to |-> <<>>, agent |-> args.agent_name],
      [on |-> args.include_data_ingestion \/ ManifestRequires,
       root |-> data_ingestion_src, to |-> <<"data_ingestion">>, agent |-> None],
      [on |-> TRUE, root |-> FrontendRoot, to |-> <<>>, agent |-> None]>>
    \o [i \in DOMAIN OVERWRITE_FOLDERS |->
          [on |-> TRUE, root |-> Append(agent_path_of(args), OVERWRITE_FOLDERS[i]),
           to |-> <<OVERWRITE_FOLDERS[i]>>, agent |-> args.agent_name]]

\* layer i supplies the project-relative path p
LayerSupplies(i, p) ==
    /\ Layers[i].on
    /\ IsUnder(p, Layers[i].to)
    /\ RelTo(p, Layers[i].to) \in Supplied(fs, Layers[i].root, Layers[i].agent)

LayerContent(i, p) == fs[PathJoin(Layers[i].root, RelTo(p, Layers[i].to))].data

\* C2 as stated: at every path of the composed tree that layers supply, the
\* content is that of the last layer, in pass order, supplying it
C2_LaterLayerWins ==
    Composed =>
        \A p \in DOMAIN SubTree(fs, Proj) :
            \A i \in DOMAIN Layers :
                (LayerSupplies(i, p) /\ \A j \in DOMAIN Layers : j > i => ~LayerSupplies(j, p))
                    => fs[PathJoin(Proj, p)].data = LayerContent(i, p)

\* the deployment targets the manifest declares
DeclaredTargets ==
    IF "deployment_targets" \notin DOMAIN RawSettings THEN {}
    ELSE IF "str" \in DOMAIN RawSettings.deployment_targets
         THEN {RawSettings.deployment_targets.str}
         ELSE Range(RawSettings.deployment_targets.list)

\* a manifest that declares deployment targets, and a non-empty requested
\* target that is not one of them
Rejected ==
    /\ Exists(fs, ManifestFile)
    /\ manifests[ManifestFile].parse = "ok"
    /\ "deployment_targets" \in DOMAIN RawSettings
    /\ Truthy(args.deployment_target)
    /\ args.deployment_target \notin DeclaredTargets

\* destination_dir / project_name
DestProject == Append(IF args.output_dir # NoPath THEN args.output_dir ELSE InitialCwd,
                      args.project_name)

\* what a filesystem holds at the destination project path
DestState(f) == [exists |-> Exists(f, DestProject), tree |-> SubTree(f, DestProject)]

\* C3: when the requested target is not among the declared ones, the call
\* never gets past validation, the only exception it raises is ValueError,
\* and no step of it creates or changes destination_dir/project_name
C3_UnsupportedTargetRejected ==
    [][Rejected =>
         /\ pc' \notin {"manifest", "render", "move", "lock", "returned"}
         /\ pc' \in {"exit", "raised"} => exc' = "ValueError"
         /\ DestState(fs') = DestState(fs)]_vars

\* C3 witness: the call has raised ValueError for an undeclared target while an
\* earlier project directory at the destination is still in place
C3_Witness ==
    /\ Rejected
    /\ pc = "raised"
    /\ exc = "ValueError"
    /\ IsFile(fs, Append(DestProject, "old.txt"))

\* the data-ingestion module is in the working tree: the directory exists and
\* holds every file of the module with the module's content
DataIngestionPresent ==
    /\ IsDir(fs, Append(Proj, "data_ingestion"))
    /\ \A r \in Supplied(fs, data_ingestion_src, None) :
          LET p == PathJoin(Append(Proj, "data_ingestion"), r)
          IN  IsFile(fs, p) /\ fs[p].data = fs[PathJoin(data_ingestion_src, r)].data

WithoutName(tree, project_name) ==
    [r \in DOMAIN tree |->
        [kind |-> tree[r].kind,
         data |-> StrReplace(tree[r].data, project_name, ProjectNamePlaceholder)]]

\* C6: a second call with the same agent, target and data-ingestion choice into
\* another output directory produces the same paths with the same content as
\* the first, up to the project name, whatever order the directory entries
\* come in
C6_RunsAgree ==
    (pc = "returned" /\ prev.done) =>
        WithoutName(SubTree(fs, loc.final_destination), args.project_name)
            = WithoutName(prev.tree, prev.project_name)

\* C6 witness: two calls have returned, into different directories, and the
\* second project holds an agent file
C6_Witness ==
    /\ pc = "returned"
    /\ prev.done
    /\ prev.project_name # args.project_name
    /\ IsFile(fs, PathJoin(loc.final_destination, AppAgent))
    /\ IsFile(fs, PathJoin(loc.final_destination, <<"uv.lock">>))

\* C9: once process_template has returned or raised, the working directory is
\* the one the call started in
C9_WorkingDirectoryRestored ==
    pc \in {"returned", "raised"} => cwd = InitialCwd

\* C9 witness: the call raised for a missing lock file, after it had changed
\* directory, and the working directory is the initial one
C9_Witness ==
    /\ pc = "raised"
    /\ exc = "FileNotFoundError"
    /\ loc.final_destination # NoPath
    /\ loc.temp_path # InitialCwd
    /\ cwd = InitialCwd

\* the destination holds a rendered tree that lacks the uv.lock its deployment
\* target calls for
IncompleteProject ==
    /\ IsFile(fs, Append(DestProject, "Makefile"))
    /\ Truthy(args.deployment_target)
    /\ ~Exists(fs, Append(DestProject, "uv.lock"))

\* the destination holds the rendered tree, with uv.lock when a target was given
CompleteProject ==
    /\ IsFile(fs, Append(DestProject, "Makefile"))
    /\ Truthy(args.deployment_target) => IsFile(fs, Append(DestProject, "uv.lock"))

\* C10 as stated: a call that raises leaves no incomplete project at the
\* destination, a call that returns leaves a complete one, and in both cases
\* the temporary tree is gone
C10_NoPartialSuccess ==
    /\ pc = "raised" => ~IncompleteProject
    /\ pc = "returned" => CompleteProject
    /\ pc \in {"returned", "raised"} => ~Exists(fs, TempDir)

\* create's view of the project directory
ProjectTree == SubTree(fs, cr.project_path)

\* C5: when the project directory exists at create's check, the check's step
\* prints the 'already exists' error and ends the command with no agent
\* selected, no GCP check run and process_template not called; that step and
\* the one before it leave the filesystem as it was, and nothing follows but
\* the end of the process (Ctrl+C before the check ends the command earlier)
C5_ExistingProjectRefused ==
    [][/\ cpc = "returned" => (cpc' = cpc /\ fs' = fs /\ cr' = cr /\ pc' = pc)
       /\ cpc = "start" => fs' = fs
       /\ (cpc = "exists" /\ Exists(fs, cr.project_path) /\ cr'.exc # "KeyboardInterrupt") =>
            /\ cpc' = "returned"
            /\ out' = Append(out, "error_already_exists")
            /\ fs' = fs
            /\ cr'.final_agent = None
            /\ cr'.gcp_checks = 0
            /\ cr'.template_calls = 0
            /\ pc' = "idle"]_vars

\* C5 witness: create has returned after the 'already exists' error and the
\* earlier project is still in place
C5_Witness ==
    /\ cpc = "returned"
    /\ out[Len(out)] = "error_already_exists"
    /\ IsFile(fs, Append(cr.project_path, "old.txt"))
    /\ cr.final_agent = None
    /\ pc = "idle"

MakefileToken(t) ==
    Contains(fs[Append(cr.project_path, "Makefile")].data,
             "data_store_region = \"" \o t \o "\"")

AfterLockStep == loc.final_destination # NoPath /\ pc \in {"exit", "returned", "raised"}

\* the lock file of the call's agent and deployment target
CallLock == lock_path(args.agent_name, args.deployment_target)

\* the project's uv.lock
UvLock == Append(loc.final_destination, "uv.lock")

\* C11: once the project is at its destination, a deployment target without
\* its lock file makes the call raise FileNotFoundError; with the lock file,
\* uv.lock is that file's content with every placeholder replaced by the
\* project name and none left; without a deployment target there is no uv.lock
C11_LockFile ==
    AfterLockStep =>
        /\ (Truthy(args.deployment_target) /\ ~Exists(fs, CallLock)) =>
              exc = "FileNotFoundError" /\ ~Exists(fs, UvLock)
        /\ (Truthy(args.deployment_target) /\ Exists(fs, CallLock)) =>
              /\ exc = None
              /\ IsFile(fs, UvLock)
              /\ fs[UvLock].data
                    = StrReplace(fs[CallLock].data, ProjectNamePlaceholder, args.project_name)
              /\ ~Contains(fs[UvLock].data, ProjectNamePlaceholder)
        /\ ~Truthy(args.deployment_target) => ~Exists(fs, UvLock)

\* C11 witness: a call has returned with a uv.lock that names the project
\* where the lock file has the placeholder
C11_Witness ==
    /\ pc = "returned"
    /\ Truthy(args.deployment_target)
    /\ Contains(fs[CallLock].data, ProjectNamePlaceholder)
    /\ Contains(fs[UvLock].data, "name = " \o args.project_name)

\* the command has ended by returning
CommandReturned == cpc \in {"done", "returned"} \/ spc = "returned"

\* the exception that ended the command, None if none did
CommandException ==
    IF cpc = "raised" THEN cr.exc ELSE IF spc = "raised" THEN sc.exc ELSE None

\* C12: for create and for setup-cicd alike, once the process has ended: a
\* command that returned has exit status 0, a command ended by Ctrl+C has exit
\* status 130, and a command ended by any other exception has printed a
\* formatted error message last and has a non-zero exit status
C12_ExitCodes ==
    exit_code # <<>> =>
        /\ CommandReturned => exit_code = <<0>>
        /\ CommandException = "KeyboardInterrupt" => exit_code = <<130>>
        /\ CommandException \notin {None, "KeyboardInterrupt"} =>
              /\ exit_code # <<0>>
              /\ out # <<>> /\ out[Len(out)] \in {"error_message", "usage_error"}

\* the wait loop's counters stay within the cap, and a run of max_retries
\* pending polls has ended in TimeoutError
WaitLoopWithinCap ==
    /\ gh.polls <= max_retries
    /\ gh.sleeps <= max_retries - 1
    /\ gh.sleeps <= gh.pending
    /\ gh.pending = max_retries => (gh.pos = "raised" /\ gh.exc = "TimeoutError")

\* a step that sleeps is a poll that reported a pending stage and leaves the
\* loop ready for a further poll
SleepOnlyBetweenPolls ==
    gh'.sleeps > gh.sleeps =>
        /\ gh'.sleeps = gh.sleeps + 1
        /\ gh'.polls = gh.polls + 1
        /\ gh'.pending = gh.pending + 1
        /\ gh'.pos = "poll" /\ gh'.attempt < max_retries

\* C13: the authorization wait loop of create_github_connection issues at
\* most 30 describe polls and at most 29 sleeps, sleeps only after a poll that
\* reported a pending stage and only when a further poll follows, raises
\* TimeoutError when all 30 polls reported a pending stage, and, once entered,
\* always comes to an end
C13_WaitLoopTerminates ==
    /\ []WaitLoopWithinCap
    /\ [][SleepOnlyBetweenPolls]_vars
    /\ (gh.pos = "poll" ~> gh.pos \in {"idle", "returned", "raised"})

\* C13 witness: thirty polls all reported a pending stage, twenty-nine sleeps
\* lay between them, and the call has raised TimeoutError
C13_Witness ==
    /\ gh.pos = "raised"
    /\ gh.exc = "TimeoutError"
    /\ gh.polls = max_retries
    /\ gh.pending = max_retries
    /\ gh.sleeps = max_retries - 1

\* the GCP environment setup of this create run raised an exception
GcpSetupFailed == cr.gcp_exc # None

\* a step of create that is not the arrival of Ctrl+C
NotInterrupted == cr'.exc # "KeyboardInterrupt"

ManifestOf(name) == Append(template_path_of(name), TEMPLATE_CONFIG_FILE)

\* the entries of the agents directory the scan looks at: directories whose
\* name does not start with "__" and that hold a manifest file
AgentDirs ==
    {name \in Entries(fs, agents_dir) :
        /\ IsDir(fs, Append(agents_dir, name))
        /\ ~StartsWith(name, "__")
        /\ Exists(fs, ManifestOf(name))}

\* the agent directories whose manifest holds a mapping
WellFormedAgents == {name \in AgentDirs : manifests[ManifestOf(name)].parse = "ok"}

\* the deployment targets a manifest lists, a single string counting as one
ListedTargets(name) ==
    LET doc == manifests[ManifestOf(name)].doc
        t == IF "settings" \in DOMAIN doc /\ "deployment_targets" \in DOMAIN doc.settings
             THEN doc.settings.deployment_targets ELSE YamlList(<<>>)
    IN  IF IsInstanceStr(t) THEN {t.str} ELSE Range(t.list)

\* the agents a call with the given deployment target is to return
ExpectedAgents(deployment_target) ==
    {name \in WellFormedAgents :
        Truthy(deployment_target) => deployment_target \in ListedTargets(name)}

\* the names of a numbered agent list
AgentNamesOf(agents) == {agents[i].name : i \in DOMAIN agents}

IsPriority(name) == name \in Range(PRIORITY_AGENTS)

\* C15: get_available_agents numbers its agents 1..n, one number per agent;
\* they are exactly the agent directories with a manifest that (when a
\* deployment target is given) list the target; priority agents come before
\* all others, and the others are in ascending order of name
C15_AgentsNumberedInOrder ==
    fn.name = "get_available_agents" =>
        /\ DOMAIN fn.agents = 1..Cardinality(ExpectedAgents(fn.deployment_target))
        /\ AgentNamesOf(fn.agents) = ExpectedAgents(fn.deployment_target)
        /\ \A i, j \in DOMAIN fn.agents :
              i < j =>
                /\ IsPriority(fn.agents[j].name) => IsPriority(fn.agents[i].name)
                /\ (~IsPriority(fn.agents[i].name) /\ ~IsPriority(fn.agents[j].name)) =>
                      StrLess(fn.agents[i].name, fn.agents[j].name)

\* C15 witness: a call with a deployment target returned the priority agent
\* first and then two other agents by name, and left out a well-formed agent
\* that lists another target and one that lists none
C15_Witness ==
    /\ fn.name = "get_available_agents"
    /\ fn.deployment_target = "cloud_run"
    /\ Len(fn.agents) = 3
    /\ fn.agents[1].name = "langgraph_base_react"
    /\ fn.agents[2].name = "agentic_rag"
    /\ fn.agents[3].name = "live_api"
    /\ {"crewai_coding_crew", "plain_agent"} \subseteq WellFormedAgents

\* the agent directories whose manifest does not parse or holds no mapping
MalformedAgents == AgentDirs \ WellFormedAgents

\* C16: in get_available_agents a manifest that cannot be parsed or holds no
\* mapping (an empty document included) makes the scan skip that agent with a
\* warning; the scan does not raise, and every well-formed agent that passes
\* the deployment target filter is returned all the same
C16_MalformedManifestSkipped ==
    fn.name = "get_available_agents" =>
        /\ fn.exc = None
        /\ Range(fn.warnings) = MalformedAgents
        /\ AgentNamesOf(fn.agents) \cap MalformedAgents = {}
        /\ ExpectedAgents(fn.deployment_target) \subseteq AgentNamesOf(fn.agents)

\* C16 witness: the scan met a manifest that does not parse, an empty one and
\* one holding a list, warned about the three, and returned two agents
C16_Witness ==
    /\ fn.name = "get_available_agents"
    /\ {"broken_yaml", "empty_yaml", "list_yaml"} \subseteq Range(fn.warnings)
    /\ Len(fn.agents) >= 2

\* the manifest file load_template_config was called for
LoadedManifest == Append(fn.src, TEMPLATE_CONFIG_FILE)

\* C17: load_template_config returns {} when the manifest file is absent and
\* the parsed mapping when the file holds a mapping, and raises a validation
\* error when the file cannot be parsed or holds something that is no mapping
C17_LoadValidates ==
    fn.name = "load_template_config" =>
        /\ ~Exists(fs, LoadedManifest) => (fn.exc = None /\ fn.config = EmptyDict)
        /\ (Exists(fs, LoadedManifest) /\ manifests[LoadedManifest].parse = "ok") =>
              (fn.exc = None /\ fn.config = manifests[LoadedManifest].doc)
        /\ (Exists(fs, LoadedManifest) /\ manifests[LoadedManifest].parse # "ok") =>
              fn.exc = "ValueError"

\* the files of the source of the copy_files call, by path relative to the
\* source (the empty path when the source is itself a file)
CopiedFrom == {RelTo(q, fn.src) : q \in {x \in DOMAIN fn.before : IsUnder(x, fn.src) /\ IsFile(fn.before, x)}}

\* the path in the source, and in the destination, of a relative path
InSrc(r) == PathJoin(fn.src, r)

InDst(r) == PathJoin(fn.dst, r)

\* the source path of r, or a directory on the way to it, is one copy_files skips
SkippedInCall(r, agent_name) ==
    IF r = <<>> THEN should_skip(fn.src, agent_name)
    ELSE \E k \in 1..Len(r) : should_skip(PathJoin(fn.src, SubSeq(r, 1, k)), agent_name)

\* the destination holds the source's file at r
CopiedOver(r) == IsFile(fs, InDst(r)) /\ fs[InDst(r)].data = fn.before[InSrc(r)].data

\* the destination at r is as it was before the call
Untouched(r) ==
    /\ Exists(fs, InDst(r)) = Exists(fn.before, InDst(r))
    /\ Exists(fs, InDst(r)) => fs[InDst(r)] = fn.before[InDst(r)]

\* C18: after copy_files(src, dst, overwrite): without overwrite every file the
\* destination already held is as it was; with overwrite every file of the
\* source that is not skipped is, with its content, at the same relative path
\* of the destination; either way the destination's files at paths the source
\* does not have are as they were, and the source is as it was
C18_CopyFrame ==
    fn.name = "copy_files" =>
        /\ ~fn.overwrite =>
              \A q \in DOMAIN fn.before :
                 (IsUnder(q, fn.dst) /\ IsFile(fn.before, q)) =>
                    (q \in DOMAIN fs /\ fs[q] = fn.before[q])
        /\ fn.overwrite =>
              \A r \in CopiedFrom : ~SkippedInCall(r, fn.agent_name) => CopiedOver(r)
        /\ \A q \in DOMAIN fn.before :
              (IsUnder(q, fn.dst) /\ IsFile(fn.before, q) /\ RelTo(q, fn.dst) \notin CopiedFrom) =>
                 (q \in DOMAIN fs /\ fs[q] = fn.before[q])
        /\ \A q \in DOMAIN fs \cup DOMAIN fn.before :
              IsUnder(q, fn.src) => (q \in DOMAIN fs /\ q \in DOMAIN fn.before /\ fs[q] = fn.before[q])

\* C18 witness: a call with overwrite replaced the destination's app/agent.py
\* by the source's and left the destination's own file alone
C18_Witness ==
    /\ fn.name = "copy_files"
    /\ fn.overwrite
    /\ fn.src = CopySrc
    /\ IsFile(fn.before, InSrc(AppAgent))
    /\ IsFile(fn.before, InDst(AppAgent))
    /\ fn.before[InDst(AppAgent)].data # fn.before[InSrc(AppAgent)].data
    /\ CopiedOver(AppAgent)
    /\ IsFile(fs, InDst(<<"own.txt">>))

\* the general exclusions: a .pyc file, a path with a __pycache__ segment
GenerallyExcluded(r) ==
    PathSuffix(InSrc(r)) = ".pyc" \/ "__pycache__" \in Range(InSrc(r))

\* the exclusions of the agent multimodal_live_api
LiveApiExcluded(r) ==
    \/ Contains(PathStr(InSrc(r)), "tests/unit/test_utils")
    \/ Contains(PathStr(InSrc(r)), "app/utils")

\* C19: after a copy_files call no .pyc file and no path with a __pycache__
\* segment of the source has been copied; for the agent multimodal_live_api no
\* path containing tests/unit/test_utils or app/utils has been copied; for any
\* other agent name, and for none, such paths are copied like any other file
C19_SkipPredicate ==
    fn.name = "copy_files" =>
        \A r \in CopiedFrom :
           /\ GenerallyExcluded(r) => Untouched(r)
           /\ (fn.agent_name = "multimodal_live_api" /\ LiveApiExcluded(r)) => Untouched(r)
           /\ (/\ fn.agent_name # "multimodal_live_api"
               /\ LiveApiExcluded(r)
               /\ ~SkippedInCall(r, None)
               /\ fn.overwrite \/ ~Exists(fn.before, InDst(r))) => CopiedOver(r)

\* C19 witness: a call for multimodal_live_api on a source holding a .pyc file,
\* a __pycache__ directory, app/utils and tests/unit/test_utils copied
\* app/agent.py and none of the others
C19_Witness ==
    /\ fn.name = "copy_files"
    /\ fn.agent_name = "multimodal_live_api"
    /\ {AppAgent, AppUtilsTyping, AppPyc, AppCachePyc, TestUtils} \subseteq CopiedFrom
    /\ CopiedOver(AppAgent)
    /\ \A r \in {AppUtilsTyping, AppPyc, AppCachePyc, TestUtils} : ~Exists(fs, InDst(r))

\* the --agent value names none of the agents and is no integer key of the
\* numbered mapping `agents`
InvalidAgentFor(v, agents) ==
    /\ \A i \in DOMAIN agents : agents[i].name # v
    /\ py_int(v).exc # None \/ py_int(v).val \notin DOMAIN agents

\* the create command under way was given an --agent value that is invalid
\* whatever the order in which the agents were found
InvalidAgentOption ==
    /\ cpc # "none"
    /\ Truthy(cr.agent)
    /\ \A order \in Orders : InvalidAgentFor(cr.agent, get_available_agents(fs, manifests, None, order))

\* the agent selection step of create, for an --agent value, not interrupted
AgentOptionStep ==
    /\ cpc = "agent"
    /\ cpc' # "agent"
    /\ Truthy(cr.agent)
    /\ cr'.exc # "KeyboardInterrupt"

\* the outcome of the step by the three cases, for one numbered mapping
AgentOptionOutcome(agents) ==
    IF \E i \in DOMAIN agents : agents[i].name = cr.agent
    THEN cpc' = "ingestion" /\ cr'.final_agent = cr.agent
    ELSE IF ~InvalidAgentFor(cr.agent, agents)
         THEN cpc' = "ingestion" /\ cr'.final_agent = agents[py_int(cr.agent).val].name
         ELSE /\ cpc' = "raised"
              /\ cr'.exc = "ValueError"
              /\ cr'.exc_msg = "Invalid agent name or number: " \o cr.agent

\* create has failed on the --agent value
InvalidAgentFailed ==
    /\ cpc = "raised"
    /\ cr.exc = "ValueError"
    /\ cr.exc_msg # None
    /\ StartsWith(cr.exc_msg, "Invalid agent name or number")

\* C20: an --agent value that is the name of an available agent selects that
\* agent; otherwise one that is an integer key of the numbered mapping selects
\* the agent at that key; otherwise create raises 'Invalid agent name or
\* number', the process exits with status 1 after printing the error, and in
\* such a run process_template is never called and the file system never changes
C20_AgentOption ==
    /\ [][AgentOptionStep =>
            \E order \in Orders :
               AgentOptionOutcome(get_available_agents(fs, manifests, None, order))]_vars
    /\ [][InvalidAgentOption => (fs' = fs /\ pc' = "idle" /\ cr'.template_calls = 0)]_vars
    /\ [](InvalidAgentFailed =>
            /\ InvalidAgentOption
            /\ cr.template_calls = 0
            /\ ~Exists(fs, cr.project_path)
            /\ exit_code # <<>> => (exit_code = <<1>> /\ out[Len(out)] = "error_message"))

\* C20 witness: create has exited with status 1 on --agent no_such_agent, with
\* the message, and nothing is at the project path
C20_Witness ==
    /\ InvalidAgentFailed
    /\ cr.exc_msg = "Invalid agent name or number: no_such_agent"
    /\ exit_code = <<1>>
    /\ out[Len(out)] = "error_message"
    /\ cr.template_calls = 0
    /\ ~Exists(fs, cr.project_path)

\* setup-cicd is under way in a directory without pyproject.toml
NotProjectRoot == spc # "none" /\ ~Exists(fs, Append(cwd, "pyproject.toml"))

\* C21: run where pyproject.toml is absent, setup-cicd raises a usage error at
\* its first step, having run no command and asked nothing, and ends with
\* exit status 2; nothing in such a run writes or copies a file, runs a
\* command or prompts (Ctrl+C before the check ends the command as an abort)
C21_ProjectRootRequired ==
    /\ [][(spc = "start" /\ NotProjectRoot /\ sc'.exc \notin {"Abort", "KeyboardInterrupt"}) =>
             (spc' = "raised" /\ sc'.exc = "UsageError" /\ out' = out)]_vars
    /\ [][NotProjectRoot => (fs' = fs /\ sc'.log = <<>> /\ gh' = NoGh)]_vars
    /\ [](sc.exc = "UsageError" =>
             /\ NotProjectRoot
             /\ sc.log = <<>>
             /\ exit_code # <<>> => (exit_code = <<2>> /\ out = <<"usage_error">>))

\* C21 witness: setup-cicd has ended with status 2 on the usage error, with
\* no command run and no prompt shown
C21_Witness ==
    /\ spc = "raised"
    /\ sc.exc = "UsageError"
    /\ NotProjectRoot
    /\ exit_code = <<2>>
    /\ sc.log = <<>>

\* C22: normalize_project_name returns a name as long as its input, with no
\* upper-case letter and no underscore; it returns an input that has neither
\* unchanged; and applied to its result it returns that result
C22_NormalizedName ==
    fn.name = "normalize_project_name" =>
        /\ Len(fn.ret) = Len(fn.arg)
        /\ ~AnyUpper(fn.ret)
        /\ ~Contains(fn.ret, "_")
        /\ (~AnyUpper(fn.arg) /\ ~Contains(fn.arg, "_")) => fn.ret = fn.arg
        /\ normalize_project_name(fn.ret).name = fn.ret

\* the deployment target names asked about
AskedTargets == {"cloud_run", "agent_engine", "cloud"}

\* the manifest of fn.agent_name holds a mapping
HasMapping ==
    /\ Exists(fs, ManifestOf(fn.agent_name))
    /\ manifests[ManifestOf(fn.agent_name)].parse = "ok"

\* what settings.deployment_targets of that manifest holds, a list when absent
RawTargets ==
    LET doc == manifests[ManifestOf(fn.agent_name)].doc
    IN  IF "settings" \in DOMAIN doc /\ "deployment_targets" \in DOMAIN doc.settings
        THEN doc.settings.deployment_targets ELSE YamlList(<<>>)

\* C23: get_deployment_targets returns [s] for a manifest whose
\* settings.deployment_targets is the string s, the list itself for a list,
\* and [] for a missing, empty or unparsable manifest; a target is in that
\* result exactly when process_template's validation accepts it for the
\* agent, and (for a directory the agent scan looks at) exactly when
\* get_available_agents filtered by the target lists the agent
C23_TargetsAgree ==
    (fn.name = "get_deployment_targets" /\ fn.exc = None) =>
        /\ ~HasMapping => fn.targets = <<>>
        /\ (HasMapping /\ IsInstanceStr(RawTargets)) => fn.targets = <<RawTargets.str>>
        /\ (HasMapping /\ ~IsInstanceStr(RawTargets)) => fn.targets = RawTargets.list
        /\ \A t \in AskedTargets :
              /\ (t \in Range(fn.targets)) <=>
                    (validation_error(fs, manifests, template_path_of(fn.agent_name), t) = None)
              /\ ~StartsWith(fn.agent_name, "__") =>
                    \A order \in Orders :
                       (t \in Range(fn.targets)) <=>
                          (fn.agent_name \in AgentNamesOf(get_available_agents(fs, manifests, t, order)))

\* C23 witness: the call for an agent whose manifest gives the single string
\* cloud_run returned the one-element list, beside an agent with a list
C23_Witness ==
    /\ fn.name = "get_deployment_targets"
    /\ fn.agent_name = "live_api"
    /\ fn.targets = <<"cloud_run">>
    /\ validation_error(fs, manifests, template_path_of("live_api"), "cloud_run") = None
    /\ \E i \in DOMAIN get_available_agents(fs, manifests, "cloud_run", "fwd") :
          get_available_agents(fs, manifests, "cloud_run", "fwd")[i].name = "live_api"
    /\ "agentic_rag" \in AgentDirs

\* the files of the project before the replace_region_in_files call
RegionFilesBefore == {q \in DOMAIN fn.before : IsUnder(q, fn.src) /\ IsFile(fn.before, q)}

\* a file the walk looks at: allowed extension or Makefile name, under none of
\* the skipped directories, and text
Walked(q) ==
    /\ PathSuffix(q) \in {".md", ".py", ".tfvars", ".yaml", ".tf", ".yml"}
       \/ PathName(q) \in {"Makefile", "makefile"}
    /\ Range(q) \cap {".git", "__pycache__", "venv", ".venv", "node_modules"} = {}
    /\ Decodable(fn.before[q].data)

\* the token the claim maps the region to
MappedToken(region) ==
    IF StartsWith(region, "us") THEN "us"
    ELSE IF StartsWith(region, "europe") THEN "eu"
    ELSE "global"

\* C24: after replace_region_in_files with a region other than us-central1,
\* a walked file holds no us-central1, and each of the four spellings of the
\* data store region it held now names the mapped token, none still naming us
\* when the token differs, also when the file held several spellings; every
\* file that is not walked, undecodable ones included, is as before
C24_AllVariantsReplaced ==
    fn.name = "replace_region_in_files" =>
        /\ DOMAIN fs = DOMAIN fn.before
        /\ \A q \in RegionFilesBefore :
              IF Walked(q)
              THEN /\ ~Contains(fs[q].data, "us-central1")
                   /\ \A i \in 1..4 :
                        Contains(fn.before[q].data, DataStoreVariants("us")[i]) =>
                           /\ Contains(fs[q].data, DataStoreVariants(MappedToken(fn.arg))[i])
                           /\ MappedToken(fn.arg) # "us" =>
                                 ~Contains(fs[q].data, DataStoreVariants("us")[i])
              ELSE fs[q] = fn.before[q]

\* a step that makes one describe poll
PollMade == gh.pos = "poll" /\ gh'.polls = gh.polls + 1

\* the stages that mean the user has not finished authorizing
PendingStages == {"PENDING_USER_OAUTH", "PENDING_INSTALL_APP"}

\* what a poll leads to, by what the describe command reported
PollOutcome ==
    /\ (gh'.pos = "returned") <=> (gh'.status = "COMPLETE")
    /\ gh'.pos = "returned" =>
          /\ gh'.secret_id = ConnectionSecretId
          /\ gh'.app_installation_id = ConnectionAppInstallationId
    /\ gh'.status = "COMPLETE_incomplete" => (gh'.pos = "raised" /\ gh'.exc = "ValueError")
    /\ gh'.pos = "poll" => gh'.status \in PendingStages
    /\ gh'.status = "OTHER" => (gh'.pos = "raised" /\ gh'.exc = "Exception")
    /\ gh'.status = "CalledProcessError" =>
          (gh'.pos = "raised" /\ gh'.exc = "CalledProcessError")

\* C25: create_github_connection returns only by a poll that reported stage
\* COMPLETE with the secret version and the installation id present, and
\* returns those; COMPLETE without either raises ValueError; only a pending
\* stage leads to another poll; any other stage raises at once, and a failing
\* describe command is raised again without another poll
C25_ReturnsOnlyWhenComplete ==
    /\ [][PollMade => PollOutcome]_vars
    /\ [][(gh'.pos = "returned" /\ gh.pos # "returned") => PollMade]_vars
    /\ [](gh.pos = "returned" =>
            /\ gh.status = "COMPLETE"
            /\ Truthy(gh.secret_id)
            /\ Truthy(gh.app_installation_id))

\* C25 witness: the call has returned the pair on a COMPLETE poll that came
\* after pending ones
C25_Witness ==
    /\ gh.pos = "returned"
    /\ gh.status = "COMPLETE"
    /\ gh.pending > 1
    /\ gh.secret_id = ConnectionSecretId

\* the position of the first entry `tag` of the command log, 0 when there is none
FirstInLog(tag) ==
    LET at == {i \in DOMAIN sc.log : sc.log[i] = tag}
    IN  IF at = {} THEN 0 ELSE CHOOSE i \in at : \A j \in at : i <= j

\* how many entries `tag` the command log holds
CountInLog(tag) == Cardinality({i \in DOMAIN sc.log : sc.log[i] = tag})

\* every entry `later` of the log comes after an entry `earlier`
LoggedBefore(earlier, later) ==
    FirstInLog(later) # 0 => (FirstInLog(earlier) # 0 /\ FirstInLog(earlier) < FirstInLog(later))

\* the steps of setup_cicd up to the one that decides the mode
UpToConnection == {"start", "provider", "repository", "apis", "connection"}

\* the steps of setup_cicd after the connection or the secret is in place
AfterConnection == {"copy", "backend", "vars", "apply", "git", "summary"}

\* both --github-pat and --github-app-installation-id are given
BothCredentialsGiven == Truthy(sc.github_pat) /\ Truthy(sc.github_app_installation_id)

\* the step that decides the mode and takes the path of that mode
ModeStep ==
    (spc = "connection" /\ sc'.exc \notin {"Abort", "KeyboardInterrupt"}) =>
        /\ sc'.detected_mode = IF BothCredentialsGiven THEN "programmatic" ELSE "interactive"
        /\ ~BothCredentialsGiven =>
              /\ sc'.log = Append(sc.log, "gh_repo_view_create")
              /\ \/ spc' = "in_connection" /\ gh'.pos = "repo"
                 \/ spc' = "raised" /\ gh' = gh
        /\ BothCredentialsGiven =>
              /\ sc'.log = Append(sc.log, "gcloud_secrets_add")
              /\ sc'.oauth_token_secret_id = "github-pat"
              /\ gh' = gh
              /\ spc' \in {"copy", "raised"}

\* the credentials are not touched before the mode is decided, and
\* create_github_connection is entered from the mode step only
ModeFrame ==
    /\ (spc \in UpToConnection /\ spc' \in UpToConnection) =>
          /\ sc'.github_pat = sc.github_pat
          /\ sc'.github_app_installation_id = sc.github_app_installation_id
    /\ (spc' = "in_connection" /\ spc # "in_connection") => spc = "connection"
    /\ spc \in AfterConnection => spc' \in AfterConnection \cup {"returned", "raised"}

\* the written env.tfvars
EnvTfvarsNow == fs[tf_dir \o <<"vars", "env.tfvars">>].data

\* what holds of the commands run and the files written, by mode
ModeEffects ==
    /\ spc = "in_connection" => sc.detected_mode = "interactive"
    /\ gh.pos # "idle" => spc \in {"in_connection", "raised"}
    /\ sc.detected_mode = "programmatic" =>
          /\ gh = NoGh
          /\ CountInLog("gcloud_connections_create") = 0
          /\ CountInLog("gcloud_secrets_add") = 1
    /\ (sc.detected_mode = "interactive" /\ spc \in AfterConnection) =>
          /\ CountInLog("gcloud_connections_create") = 1
          /\ CountInLog("gcloud_secrets_add") = 0
          /\ LoggedBefore("gh_repo_view_create", "gcloud_connections_create")
    /\ LoggedBefore("gcloud_services_enable", "gh_repo_view_create")
    /\ LoggedBefore("gcloud_services_enable", "gcloud_connections_create")
    /\ LoggedBefore("gcloud_services_enable", "gcloud_secrets_add")
    /\ LoggedBefore("write_env_tfvars", "terraform_dev")
    /\ LoggedBefore("write_env_tfvars", "terraform_prod")
    /\ FirstInLog("write_env_tfvars") # 0 =>
          /\ (sc.detected_mode = "interactive") <=>
                Contains(EnvTfvarsNow, "\nconnection_exists = true\n")
          /\ (sc.detected_mode = "programmatic") <=>
                Contains(EnvTfvarsNow, "\nconnection_exists = false\n")

\* C26: setup-cicd is in programmatic mode exactly when both --github-pat and
\* --github-app-installation-id are given, else interactive. Interactive mode
\* creates or reuses the repository, then enters create_github_connection
\* once, and writes connection_exists = true; programmatic mode never enters
\* it, stores the github-pat secret, and writes connection_exists = false.
\* The APIs are enabled before either, and terraform runs only after
\* env.tfvars has been rewritten
C26_ModesAndOrder ==
    /\ [][ModeStep]_vars
    /\ [][ModeFrame]_vars
    /\ []ModeEffects

\* C26 witness: an interactive run has gone through the connection and
\* terraform, with connection_exists = true written before
C26_Witness ==
    /\ spc = "summary"
    /\ sc.detected_mode = "interactive"
    /\ CountInLog("gcloud_connections_create") = 1
    /\ CountInLog("terraform_prod") = 1
    /\ Contains(EnvTfvarsNow, "\nconnection_exists = true\n")

\* the rendered project in the temporary directory, and the destination
RenderedDir == Append(loc.temp_path, args.project_name)

FinalDir == Append(loc.destination_dir, args.project_name)

\* a tree without its uv.lock
WithoutLock(tree) == [r \in DOMAIN tree \ {<<"uv.lock">>} |-> tree[r]]

\* the move step has moved the project
Moved == pc = "move" /\ pc' = "lock"

\* C27: the move step leaves at destination_dir/project_name exactly the
\* rendered tree, whatever was at that path before; the steps of the call
\* that follow change nothing there but uv.lock, which is there after a
\* successful call exactly when a deployment target was given
C27_DestinationIsRenderedTree ==
    /\ [][Moved => SubTree(fs', FinalDir) = SubTree(fs, RenderedDir)]_vars
    /\ [][(pc \in {"lock", "exit"} /\ loc.final_destination # NoPath) =>
            WithoutLock(SubTree(fs', loc.final_destination))
               = WithoutLock(SubTree(fs, loc.final_destination))]_vars
    /\ [](pc = "returned" =>
            /\ IsDir(fs, loc.final_destination)
            /\ Exists(fs, Append(loc.final_destination, "uv.lock"))
                  <=> Truthy(args.deployment_target))

\* C27 witness: a call has returned after its move step replaced a directory
\* that was at the destination, and the project holds its files and no old one
C27_Witness ==
    /\ pc = "returned"
    /\ loc.replaced
    /\ IsFile(fs, PathJoin(loc.final_destination, AppAgent))
    /\ ~Exists(fs, Append(loc.final_destination, "old.txt"))

\* C28: after the lock generator ran to its end, every agent of the agents
\* directory and every deployment target that the validation of
\* process_template accepts for that agent has its lock file, under the very
\* name process_template looks up, uv-{agent}-{target}.lock, whether the
\* manifest gives the targets as a list or as a single string
C28_LocksMatchLookup ==
    (fn.name = "generate_locks" /\ fn.exc = None) =>
        \A n \in Entries(fn.before, agents_dir), t \in AskedTargets :
            validation_error(fn.before, manifests, template_path_of(n), t) = None
                => IsFile(fs, lock_path(n, t))

\* the messages of the chat session_state["session_id"] names
CurrentMessages(s) == ChatAt(s.user_chats, s.session_id).messages

\* the run of the script that just ended handled one of the three buttons
ButtonRun(s) == s.last \in {"new_chat", "delete_chat", "select_chat"}

\* a "+ New chat" run adds a chat only when the current chat had a message;
\* the chat it adds is empty, is the current one and has a new key
NewChatStep ==
    (st'.last = "new_chat" /\ st'.user_chats # st.user_chats) =>
        /\ Len(CurrentMessages(st)) > 0
        /\ st'.user_chats = Append(st.user_chats, Chat(st'.session_id, EMPTY_CHAT_NAME, <<>>))
        /\ st'.session_id \notin ChatIds(st.user_chats)

\* a run that handled a button and left another chat current has reset run_id
RunIdStep ==
    (st.last # "none" /\ ButtonRun(st') /\ st'.session_id # st.session_id) =>
        st'.run_id = None

\* C29: after the first run and after every run that handled "+ New chat",
\* "Delete chat" or the button of a chat, session_id is a key of user_chats;
\* "+ New chat" adds an empty chat only when the current chat has at least
\* one message; every such run that changes the current chat leaves run_id
\* at None
C29_SidebarKeepsCurrentChat ==
    /\ [](st.last # "none" => st.session_id \in ChatIds(st.user_chats))
    /\ [][NewChatStep]_vars
    /\ [][RunIdStep]_vars

\* the last chat was deleted while a run id was stored: a new empty chat is
\* the current one and run_id is None
C29_Witness ==
    /\ st.last = "delete_chat"
    /\ st.uuids >= 2
    /\ st.run_id = None
    /\ st.user_chats = <<Chat(st.session_id, EMPTY_CHAT_NAME, <<>>)>>

\* the threads inside rebuild_template
Rebuilding == {t \in {"main", "observer"} : wt[t] = "building"}

\* the times of the events on_modified accepted lie a cooldown apart or more
CooldownKept ==
    \A i \in 1..(Len(wt.accepted) - 1) :
        wt.accepted[i + 1] - wt.accepted[i] >= rebuild_cooldown * TicksPerSecond

\* C30: at no time are the main thread's initial build and a rebuild of the
\* observer thread both inside rebuild_template; an event that arrives less
\* than rebuild_cooldown after the last accepted one starts no rebuild; after
\* a rebuild has failed neither thread of the watcher has died
C30_OneRebuildAtATime ==
    /\ Cardinality(Rebuilding) <= 1
    /\ CooldownKept
    /\ wt.failed => (wt.main # "dead" /\ wt.observer # "dead")

====
